---------------------------- MODULE Spec2Model ----------------------------
(***************************************************************************)
(* Schnorr signatures, the BulletProof inner-product argument and the      *)
(* Incognito signature conversion of pbrian1004/incognito                  *)
(* (src/src/schnorr.rs, src/src/bulletproof.rs, src/src/incognito.rs).     *)
(*                                                                         *)
(* The code is generic over a prime-order curve C and a digest D.  The     *)
(* model instantiates C with the cyclic group of prime order Q, a point    *)
(* being written as its multiple of the generator, and D with a keyed      *)
(* polynomial digest; ThreadRng is a seeded deterministic stream.  Rust    *)
(* vectors are sequences: index i of the code is index i + 1 here.         *)
(***************************************************************************)
EXTENDS Integers, Sequences, FiniteSets, TLC

---------------------------------------------------------------------------
(* Bounds of the model *)

\* messages are byte strings of at most MaxMsgLen bytes over 0..MaxByte
MaxMsgLen == 2
MaxByte == 1
\* seeds of the random stream handed to one call
MaxSeed == 13
\* digests D the code is instantiated with
MaxDigest == 2

---------------------------------------------------------------------------
(* The curve C: scalar field and group of prime order Q *)

\* order of the group (C: CurveArithmetic)
Q == 7

Scalars == 0 .. (Q - 1)
Points == 0 .. (Q - 1)

\* Scalar::ZERO, Scalar::ONE
ZERO == 0
ONE == 1

\* ProjectivePoint::generator() and the identity
generator == 1
identity == 0

\* scalar arithmetic of the field F_Q
SAdd(a, b) == (a + b) % Q
SSub(a, b) == (a + Q - b) % Q
SMul(a, b) == (a * b) % Q
SNeg(a) == (Q - a) % Q

\* Scalar::invert(): a CtOption that is none for zero (unwrap then panics)
Invertible(a) == a # ZERO
invert(a) == CHOOSE b \in Scalars : SMul(a, b) = ONE

\* group law and scalar multiplication
PAdd(p, q) == (p + q) % Q
PMul(p, s) == (p * s) % Q

\* to_bytes() of a point (canonical affine encoding), to_repr() of a scalar
to_bytes(p) == << p >>
to_repr(s) == << s >>

---------------------------------------------------------------------------
(* ThreadRng: the thread's deterministic stream, fixed by its seed; a call
   draws from the state the calls before it left *)

RngModulus == 251
RngMultiplier == 6

RECURSIVE RngState(_, _)
RngState(state, i) ==
    IF i = 0 THEN (state * RngMultiplier) % RngModulus
    ELSE (RngState(state, i - 1) * RngMultiplier) % RngModulus

\* Scalar::random(&mut rng): the i-th draw (from 0) of the stream
random(seed, i) == RngState(seed, i) % Q

\* ProjectivePoint::random(&mut rng): a non-identity element
random_point(seed, i) == 1 + (RngState(seed, i) % (Q - 1))

\* the state of the stream after k draws
Advance(state, k) == IF k = 0 THEN state ELSE RngState(state, k - 1)

Seeds == 1 .. MaxSeed

---------------------------------------------------------------------------
(* The digest D and the reduction of its output to a scalar *)

DigestModulus == 251
DigestMultiplier == 31

Digests == 1 .. MaxDigest

\* D::new().chain_update(..)...finalize(): absorbs the bytes in order
RECURSIVE Absorb(_, _, _)
Absorb(acc, bytes, i) ==
    IF i > Len(bytes) THEN acc
    ELSE Absorb((acc * DigestMultiplier + bytes[i] + 1) % DigestModulus, bytes, i + 1)

Digest(D, bytes) == Absorb(D, bytes, 1)

\* <Scalar as Reduce>::reduce_bytes
reduce_bytes(x) == x % Q

Bytes == 0 .. MaxByte
Messages == UNION { [1 .. k -> Bytes] : k \in 0 .. MaxMsgLen }

---------------------------------------------------------------------------
(* schnorr.rs *)

\* the challenge without the message
SchnorrChallengeNoMessage(D, point_r, m) ==
    reduce_bytes(Digest(D, to_bytes(point_r)))

\* SchnorrSignature::challenge
SchnorrChallenge(D, point_r, m) ==
    reduce_bytes(Digest(D, to_bytes(point_r) \o m))

\* sign that leaves sk * c out of z
SchnorrSignNoKey(D, sk, message, seed) ==
    LET r == random(seed, 0)
        point_r == PMul(generator, r)
    IN  [point_r |-> point_r, z |-> r]

\* SchnorrSignature::sign, drawing r from the stream in the given state
SchnorrSign(D, sk, message, seed) ==
    LET r == random(seed, 0)
        point_r == PMul(generator, r)
        c == SchnorrChallenge(D, point_r, message)
        z == SAdd(r, SMul(sk, c))
    IN  [point_r |-> point_r, z |-> z]

\* verify that leaves the message out of the challenge
SchnorrVerifyNoMessage(D, sig, pk, message) ==
    IF PAdd(PMul(pk, SchnorrChallenge(D, sig.point_r, << >>)), sig.point_r)
         = PMul(generator, sig.z)
    THEN "ok" ELSE "err"

\* verify that leaves R out of the left-hand side
SchnorrVerifyNoR(D, sig, pk, message) ==
    IF PMul(pk, SchnorrChallenge(D, sig.point_r, message)) = PMul(generator, sig.z)
    THEN "ok" ELSE "err"

\* SchnorrSignature::verify

SchnorrVerify(D, sig, pk, message) ==
    IF PAdd(PMul(pk, SchnorrChallenge(D, sig.point_r, message)), sig.point_r)
         = PMul(generator, sig.z)
    THEN "ok" ELSE "err"

---------------------------------------------------------------------------
(* bulletproof.rs *)

\* the sum of a vector of points (Iterator::sum)
RECURSIVE SumPoints(_)
SumPoints(v) ==
    IF Len(v) = 0 THEN identity ELSE PAdd(Head(v), SumPoints(Tail(v)))

\* the sum of a vector of scalars
RECURSIVE SumScalars(_)
SumScalars(v) ==
    IF Len(v) = 0 THEN ZERO ELSE SAdd(Head(v), SumScalars(Tail(v)))

\* slice::split_at(n): (v[..n], v[n..])
Lo(v, n) == SubSeq(v, 1, n)
Hi(v, n) == SubSeq(v, n + 1, Len(v))

\* (0..n).map(|i| g[i] * l[i] + h[i] * r[i]).sum()
Commit(n, g, l, h, r) ==
    SumPoints([i \in 1 .. n |-> PAdd(PMul(g[i], l[i]), PMul(h[i], r[i]))])

\* BulletProof::challenge
BulletChallenge(D, target, point_l, point_r) ==
    reduce_bytes(Digest(D, to_bytes(target) \o to_bytes(point_l) \o to_bytes(point_r)))

\* the target folded with x and x_inv in place of their squares
FoldTargetUnsquared(point_p, point_l, point_r, x, x_inv) ==
    PAdd(PAdd(PMul(point_l, x), point_p), PMul(point_r, x_inv))

\* point_p = point_l * x * x + point_p + point_r * x_inv * x_inv
FoldTarget(point_p, point_l, point_r, x, x_inv) ==
    PAdd(PAdd(PMul(PMul(point_l, x), x), point_p), PMul(PMul(point_r, x_inv), x_inv))

\* vec_g = (0..n).map(|i| vec_g0[i] * x_inv + vec_g1[i] * x)
FoldG(n, vec_g, x, x_inv) ==
    [i \in 1 .. n |-> PAdd(PMul(Lo(vec_g, n)[i], x_inv), PMul(Hi(vec_g, n)[i], x))]

\* vec_h = (0..n).map(|i| vec_h0[i] * x + vec_h1[i] * x_inv)
FoldH(n, vec_h, x, x_inv) ==
    [i \in 1 .. n |-> PAdd(PMul(Lo(vec_h, n)[i], x), PMul(Hi(vec_h, n)[i], x_inv))]

\* the prover folding l with x and x_inv exchanged
FoldLSwapped(n, vec_l, x, x_inv) ==
    [i \in 1 .. n |-> SAdd(SMul(Lo(vec_l, n)[i], x_inv), SMul(Hi(vec_l, n)[i], x))]

\* vec_l = (0..n).map(|i| vec_l0[i] * x + vec_l1[i] * x_inv)
FoldL(n, vec_l, x, x_inv) ==
    [i \in 1 .. n |-> SAdd(SMul(Lo(vec_l, n)[i], x), SMul(Hi(vec_l, n)[i], x_inv))]

\* vec_r = (0..n).map(|i| vec_r0[i] * x_inv + vec_r1[i] * x)
FoldR(n, vec_r, x, x_inv) ==
    [i \in 1 .. n |-> SAdd(SMul(Lo(vec_r, n)[i], x_inv), SMul(Hi(vec_r, n)[i], x))]

\* a loop that leaves the last halving out
ProveContinuesAboveTwo(n) == n > 2

\* a loop that never leaves: the halving goes on at n = 1 and n = 0
ProveContinuesForever(n) == n >= 0

\* a loop that halves a single entry once more
ProveContinuesAtOne(n) == n > 0

\* while n > 1
ProveContinues(n) == n > 1

\* the value of a BulletProof that was not produced
NoBulletProof ==
    [target |-> identity, vec_point_l |-> << >>, vec_point_r |-> << >>,
     l |-> ZERO, r |-> ZERO]

\* one pass through the body of prove's loop, from a state st of its local
\* variables.  A slice index out of range and unwrap() of a zero challenge's
\* inverse panic.
ProveRound(D, target, st) ==
      LET n == st.n \div 2
      IN  IF \E v \in {st.vec_h, st.vec_l, st.vec_r} : Len(v) < 2 * n
          THEN [st EXCEPT !.status = "panic", !.why = "index"]
          ELSE
            LET vec_g0 == Lo(st.vec_g, n)
                vec_g1 == Hi(st.vec_g, n)
                vec_h0 == Lo(st.vec_h, n)
                vec_h1 == Hi(st.vec_h, n)
                vec_l0 == Lo(st.vec_l, n)
                vec_l1 == Hi(st.vec_l, n)
                vec_r0 == Lo(st.vec_r, n)
                vec_r1 == Hi(st.vec_r, n)
                point_l == Commit(n, vec_g1, vec_l0, vec_h0, vec_r1)
                point_r == Commit(n, vec_g0, vec_l1, vec_h1, vec_r0)
                x == BulletChallenge(D, target, point_l, point_r)
            IN  IF ~Invertible(x)
                THEN [st EXCEPT !.status = "panic", !.why = "invert",
                                !.vec_point_l = Append(@, point_l),
                                !.vec_point_r = Append(@, point_r)]
                ELSE
                  LET x_inv == invert(x)
                      point_p == FoldTarget(st.point_p, point_l, point_r, x, x_inv)
                      vec_g == FoldG(n, st.vec_g, x, x_inv)
                      vec_h == FoldH(n, st.vec_h, x, x_inv)
                      vec_l == FoldL(n, st.vec_l, x, x_inv)
                      vec_r == FoldR(n, st.vec_r, x, x_inv)
                      round == [x |-> x, n |-> n, point_p |-> point_p,
                                vec_g |-> vec_g, vec_h |-> vec_h,
                                vec_l |-> vec_l, vec_r |-> vec_r]
                  IN    [status |-> "ok", why |-> "", n |-> n,
                         vec_g |-> vec_g, vec_h |-> vec_h,
                         vec_l |-> vec_l, vec_r |-> vec_r,
                         point_p |-> point_p,
                         vec_point_l |-> Append(st.vec_point_l, point_l),
                         vec_point_r |-> Append(st.vec_point_r, point_r),
                         rounds |-> Append(st.rounds, round),
                         \* debug_assert_eq!(point_p, sum of the folded vectors)
                         debug_ok |-> st.debug_ok
                                        /\ point_p = Commit(n, vec_g, vec_l, vec_h, vec_r)]

\* prove's loop, from a state st of its local variables
RECURSIVE ProveLoop(_, _, _)
ProveLoop(D, target, st) ==
    IF st.status # "ok" \/ ~ProveContinues(st.n) THEN st
    ELSE ProveLoop(D, target, ProveRound(D, target, st))

\* the local variables of prove before its loop
ProveInit(vec_g, vec_h, vec_l, vec_r, target) ==
    [status |-> "ok", why |-> "", n |-> Len(vec_g),
     vec_g |-> vec_g, vec_h |-> vec_h, vec_l |-> vec_l, vec_r |-> vec_r,
     point_p |-> target,
     vec_point_l |-> << >>, vec_point_r |-> << >>,
     rounds |-> << >>, debug_ok |-> TRUE]

\* what prove returns after its loop, st the local variables
ProveReturn(target, st) ==
    IF st.status # "ok"
    THEN [status |-> "panic", why |-> st.why, proof |-> NoBulletProof,
          rounds |-> st.rounds, debug_ok |-> st.debug_ok]
    \* vec_l[0], vec_r[0]
    ELSE IF Len(st.vec_l) = 0 \/ Len(st.vec_r) = 0
    THEN [status |-> "panic", why |-> "index", proof |-> NoBulletProof,
          rounds |-> st.rounds, debug_ok |-> st.debug_ok]
    ELSE [status |-> "ok", why |-> "",
          proof |-> [target |-> target,
                     vec_point_l |-> st.vec_point_l,
                     vec_point_r |-> st.vec_point_r,
                     l |-> st.vec_l[1],
                     r |-> st.vec_r[1]],
          rounds |-> st.rounds, debug_ok |-> st.debug_ok]

\* BulletProof::prove: [status, proof], with the rounds it went through,
\* whether its debug assertions held and why it panicked ("invert": unwrap()
\* of the inverse of a zero challenge, "index": an index out of range)
BulletProve(D, vec_g, vec_h, vec_l, vec_r, target) ==
    ProveReturn(target, ProveLoop(D, target, ProveInit(vec_g, vec_h, vec_l, vec_r, target)))

\* the width of usize, in bits
UsizeBits == 4

\* the builds: debug (overflow checks on) and release (wrapping arithmetic)
Builds == {"debug", "release"}

\* 2_usize.pow(k) overflows
usize_pow2_overflows(k) == k >= UsizeBits

\* 2_usize.pow(k), wrapping: 2^k modulo 2^UsizeBits
RECURSIVE usize_pow2(_)
usize_pow2(k) ==
    IF k >= UsizeBits THEN 0
    ELSE IF k = 0 THEN 1 ELSE 2 * usize_pow2(k - 1)

\* a verifier hashing the evolving point_p in place of the proof's target
VerifyChallengeEvolving(D, proof, point_p, point_l, point_r) ==
    BulletChallenge(D, point_p, point_l, point_r)

\* Self::challenge::<D>(&self.target, &point_l, &point_r) in verify's loop,
\* point_p the folded point of the round
VerifyChallenge(D, proof, point_p, point_l, point_r) ==
    BulletChallenge(D, proof.target, point_l, point_r)

\* one pass through the body of verify's loop, i the round (from 1)
VerifyRound(D, proof, st, i) ==
      LET n == st.n \div 2
      IN  IF Len(st.vec_h) < 2 * n \/ i > Len(proof.vec_point_r)
          THEN [st EXCEPT !.status = "panic"]
          ELSE
            LET point_l == proof.vec_point_l[i]
                point_r == proof.vec_point_r[i]
                x == VerifyChallenge(D, proof, st.point_p, point_l, point_r)
            IN  IF ~Invertible(x)
                THEN [st EXCEPT !.status = "panic"]
                ELSE
                  LET x_inv == invert(x)
                      point_p == FoldTarget(st.point_p, point_l, point_r, x, x_inv)
                      vec_g == FoldG(n, st.vec_g, x, x_inv)
                      vec_h == FoldH(n, st.vec_h, x, x_inv)
                      round == [x |-> x, n |-> n, point_p |-> point_p,
                                vec_g |-> vec_g, vec_h |-> vec_h]
                  IN    [status |-> "ok", n |-> n,
                         vec_g |-> vec_g, vec_h |-> vec_h, point_p |-> point_p,
                         rounds |-> Append(st.rounds, round)]

\* for i in 0..self.vec_point_l.len()
VerifyContinues(proof, i) == i <= Len(proof.vec_point_l)

\* verify's loop from round i, st the local variables
RECURSIVE VerifyLoop(_, _, _, _)
VerifyLoop(D, proof, st, i) ==
    IF st.status # "ok" \/ ~VerifyContinues(proof, i) THEN st
    ELSE VerifyLoop(D, proof, VerifyRound(D, proof, st, i), i + 1)

\* a verify content with at least 2^|L| bases
VerifyEnterAtLeast(build, proof, vec_g) ==
    IF build = "debug" /\ usize_pow2_overflows(Len(proof.vec_point_l))
    THEN "panic"
    ELSE IF Len(vec_g) < usize_pow2(Len(proof.vec_point_l))
    THEN "err"
    ELSE "ok"

\* a verify without the ensure! on the number of bases
VerifyEnterUnchecked(build, proof, vec_g) == "ok"

\* verify before its loop: "panic" (2_usize.pow overflows in a debug build),
\* "err" (the ensure! on n fails) or "ok" (the loop is entered)
VerifyEnter(build, proof, vec_g) ==
    IF build = "debug" /\ usize_pow2_overflows(Len(proof.vec_point_l))
    THEN "panic"
    ELSE IF Len(vec_g) # usize_pow2(Len(proof.vec_point_l))
    THEN "err"
    ELSE "ok"

\* the local variables of verify when its loop is entered
VerifyInit(proof, vec_g, vec_h) ==
    [status |-> "ok", n |-> Len(vec_g),
     vec_g |-> vec_g, vec_h |-> vec_h, point_p |-> proof.target,
     rounds |-> << >>]

\* what verify returns after its loop, st the local variables
VerifyReturn(proof, st) ==
    \* vec_g[0], vec_h[0]
    IF st.status # "ok" \/ Len(st.vec_g) = 0 \/ Len(st.vec_h) = 0
    THEN [status |-> "panic", rounds |-> st.rounds]
    ELSE IF st.point_p = PAdd(PMul(st.vec_g[1], proof.l), PMul(st.vec_h[1], proof.r))
         THEN [status |-> "ok", rounds |-> st.rounds]
         ELSE [status |-> "err", rounds |-> st.rounds]

\* BulletProof::verify in a build: "ok", "err" (an ensure! failed) or "panic"
BulletVerifyBuild(build, D, proof, vec_g, vec_h) ==
    IF VerifyEnter(build, proof, vec_g) # "ok"
    THEN [status |-> VerifyEnter(build, proof, vec_g), rounds |-> << >>]
    ELSE VerifyReturn(proof, VerifyLoop(D, proof, VerifyInit(proof, vec_g, vec_h), 1))

\* BulletProof::verify where 2_usize.pow does not overflow (the builds agree)
BulletVerify(D, proof, vec_g, vec_h) ==
    BulletVerifyBuild("release", D, proof, vec_g, vec_h)

---------------------------------------------------------------------------
(* incognito.rs *)

\* const MAXN: the number of bases of each vector of the parameters
MAXN == 4

\* IncognitoParams::new: g, h, vec_g, vec_h drawn in this order
IncognitoParamsNew(seed) ==
    [g |-> random_point(seed, 0),
     h |-> random_point(seed, 1),
     vec_g |-> [i \in 1 .. MAXN |-> random_point(seed, 1 + i)],
     vec_h |-> [i \in 1 .. MAXN |-> random_point(seed, 1 + MAXN + i)]]

\* build_vec_yn: (1, y, y^2, ..., y^(n-1))
RECURSIVE build_vec_yn(_, _)
build_vec_yn(n, y) ==
    IF n = 0 THEN << >>
    ELSE IF n = 1 THEN << ONE >>
    ELSE LET v == build_vec_yn(n - 1, y) IN Append(v, SMul(v[n - 1], y))

\* challenge_cz
challenge_cz(D, commitment_pk_mask, commitment_pk) ==
    reduce_bytes(Digest(D, to_bytes(commitment_pk_mask) \o to_bytes(commitment_pk)))

\* challenge_y: the transcript ends with the byte 0
challenge_y(D, point_g, point_a, point_s, point_s_pk, point_c_pk) ==
    reduce_bytes(Digest(D, to_bytes(point_g) \o to_bytes(point_a) \o to_bytes(point_s)
                             \o to_bytes(point_s_pk) \o to_bytes(point_c_pk) \o << 0 >>))

\* challenge_w: the transcript ends with the byte 1
challenge_w(D, point_g, point_a, point_s, point_s_pk, point_c_pk) ==
    reduce_bytes(Digest(D, to_bytes(point_g) \o to_bytes(point_a) \o to_bytes(point_s)
                             \o to_bytes(point_s_pk) \o to_bytes(point_c_pk) \o << 1 >>))

\* challenge_x
challenge_x(D, point_t1, point_t2, y, w) ==
    reduce_bytes(Digest(D, to_bytes(point_t1) \o to_bytes(point_t2)
                             \o to_repr(y) \o to_repr(w)))

\* challenge_d
challenge_d(D, x, taux, mu, nu, tx) ==
    reduce_bytes(Digest(D, to_repr(x) \o to_repr(taux) \o to_repr(mu)
                             \o to_repr(nu) \o to_repr(tx)))

\* the value of an IncognitoSignature that was not produced
NoIncognitoSignature ==
    [point_r |-> identity, point_c_pk |-> identity, point_r_z |-> identity,
     s_z |-> ZERO, s_beta |-> ZERO,
     point_a |-> identity, point_s |-> identity, point_s_pk |-> identity,
     point_t1 |-> identity, point_t2 |-> identity,
     taux |-> ZERO, mu |-> ZERO, nu |-> ZERO, tx |-> ZERO,
     bulletproof |-> NoBulletProof]

\* t0 with the term in n left out
PolyT0NoN(n, y, w) ==
    SAdd(SMul(w, w), SMul(SSub(w, SMul(w, w)), SumScalars(build_vec_yn(n, y))))

\* t0 = w * w - w * w * w * scalar_n + (w - w * w) * scalar_sum_yn
PolyT0(n, y, w) ==
    LET scalar_n == n % Q
        scalar_sum_yn == SumScalars(build_vec_yn(n, y))
    IN  SAdd(SSub(SMul(w, w), SMul(SMul(SMul(w, w), w), scalar_n)),
             SMul(SSub(w, SMul(w, w)), scalar_sum_yn))

\* bulletproof_base1 and bulletproof_base2 of convert
ConvertBase1(params, pks, n, d) ==
    [i \in 1 .. n |-> PAdd(params.vec_g[i], PMul(pks[i], d))]
ConvertBase2(params, n, vec_yn_inv) ==
    [i \in 1 .. n |-> PMul(params.vec_h[i], vec_yn_inv[i])]

\* vec_l without its blinding term
ConvertVecLUnblinded(n, vec_b, w, vec_s_b, x) ==
    [i \in 1 .. n |-> SSub(vec_b[i], w)]

\* vec_l of convert: (b_i - w) + s_b_i * x
ConvertVecL(n, vec_b, w, vec_s_b, x) ==
    [i \in 1 .. n |-> SAdd(SSub(vec_b[i], w), SMul(vec_s_b[i], x))]

\* convert after its two ensure!, draw the scalars it draws, in order, by a
\* converter that commits in T1 to t1 + delta and sends t0 + (t1 + delta) * x
\* + t2 * x * x as tx; convert itself is the case delta = 0
ConvertBiased(D, params, pks, message, signature, index, draw, delta) ==
    LET n == Len(pks)
        beta == draw[1]
        point_c_pk == PAdd(PMul(params.g, beta), pks[index + 1])
        r_z == draw[2]
        r_beta == draw[3]
        c == SchnorrChallenge(D, signature.point_r, message)
        point_r_z == PAdd(PMul(generator, r_z), PMul(PMul(params.g, r_beta), c))
        c_z == challenge_cz(D, point_r_z, point_c_pk)
        s_z == SAdd(r_z, SMul(c_z, signature.z))
        s_beta == SAdd(r_beta, SMul(c_z, beta))
        alpha == draw[4]
        rho == draw[5]
        zeta == draw[6]
        vec_s_a == [i \in 1 .. n |-> draw[6 + i]]
        vec_s_b == [i \in 1 .. n |-> draw[6 + n + i]]
        vec_b == [i \in 1 .. n |-> IF i = index + 1 THEN ONE ELSE ZERO]
        vec_a == [i \in 1 .. n |-> SSub(vec_b[i], ONE)]
        point_a == PAdd(PMul(params.h, alpha),
                        Commit(n, params.vec_g, vec_b, params.vec_h, vec_a))
        point_s == PAdd(PMul(params.h, rho),
                        Commit(n, params.vec_g, vec_s_b, params.vec_h, vec_s_a))
        point_s_pk == PAdd(PMul(params.g, zeta),
                           SumPoints([i \in 1 .. n |-> PMul(pks[i], vec_s_b[i])]))
        y == challenge_y(D, params.g, point_a, point_s, point_s_pk, point_c_pk)
        w == challenge_w(D, params.g, point_a, point_s, point_s_pk, point_c_pk)
        vec_yn == build_vec_yn(n, y)
        t1 == SumScalars([i \in 1 .. n |->
                 SAdd(SMul(vec_s_b[i], SAdd(SMul(vec_yn[i], SAdd(vec_a[i], w)), SMul(w, w))),
                      SMul(SSub(vec_b[i], w), SMul(vec_yn[i], vec_s_a[i])))])
        t2 == SumScalars([i \in 1 .. n |-> SMul(SMul(vec_s_b[i], vec_yn[i]), vec_s_a[i])])
        tau1 == draw[7 + 2 * n]
        tau2 == draw[8 + 2 * n]
        point_t1 == PAdd(PMul(generator, SAdd(t1, delta)), PMul(params.h, tau1))
        point_t2 == PAdd(PMul(generator, t2), PMul(params.h, tau2))
        x == challenge_x(D, point_t1, point_t2, y, w)
        taux == SAdd(SMul(SMul(tau2, x), x), SMul(tau1, x))
        mu == SAdd(alpha, SMul(rho, x))
        nu == SAdd(beta, SMul(zeta, x))
        vec_l == ConvertVecL(n, vec_b, w, vec_s_b, x)
        vec_r == [i \in 1 .. n |->
                    SAdd(SMul(vec_yn[i], SAdd(SAdd(vec_a[i], w), SMul(vec_s_a[i], x))),
                         SMul(w, w))]
        tx == SumScalars([i \in 1 .. n |-> SMul(vec_l[i], vec_r[i])])
        \* debug_assert_eq!(tx, t0 + t1 * x + t2 * x * x)
        t0 == PolyT0(n, y, w)
        tx_ok == tx = SAdd(SAdd(t0, SMul(t1, x)), SMul(SMul(t2, x), x))
        \* the scalar sent as tx
        tx_sent == SAdd(tx, SMul(delta, x))
        d == challenge_d(D, x, taux, mu, nu, tx_sent)
        trace == [c |-> c, c_z |-> c_z, y |-> y, w |-> w, x |-> x, d |-> d,
                  t0 |-> t0, t1 |-> t1, t2 |-> t2,
                  vec_l |-> vec_l, vec_r |-> vec_r,
                  r_beta |-> r_beta]
    IN  IF ~Invertible(y)
        THEN [status |-> "panic", why |-> "invert", sig |-> NoIncognitoSignature,
              trace |-> trace, base1 |-> << >>, base2 |-> << >>,
              rounds |-> << >>, debug_ok |-> tx_ok]
        ELSE
          LET vec_yn_inv == build_vec_yn(n, invert(y))
              bulletproof_base1 == ConvertBase1(params, pks, n, d)
              bulletproof_base2 == ConvertBase2(params, n, vec_yn_inv)
              bulletproof_target ==
                  SumPoints([i \in 1 .. n |->
                     PAdd(PMul(PAdd(params.vec_g[i], PMul(pks[i], d)), vec_l[i]),
                          PMul(PMul(params.vec_h[i], vec_yn_inv[i]), vec_r[i]))])
              proved == BulletProve(D, bulletproof_base1, bulletproof_base2,
                                    vec_l, vec_r, bulletproof_target)
          IN  [status |-> proved.status, why |-> proved.why,
               sig |-> IF proved.status # "ok" THEN NoIncognitoSignature
                       ELSE [point_r |-> signature.point_r,
                             point_c_pk |-> point_c_pk,
                             point_r_z |-> point_r_z,
                             s_z |-> s_z,
                             s_beta |-> s_beta,
                             point_a |-> point_a,
                             point_s |-> point_s,
                             point_s_pk |-> point_s_pk,
                             point_t1 |-> point_t1,
                             point_t2 |-> point_t2,
                             taux |-> taux,
                             mu |-> mu,
                             nu |-> nu,
                             tx |-> tx_sent,
                             bulletproof |-> proved.proof],
               trace |-> trace,
               base1 |-> bulletproof_base1, base2 |-> bulletproof_base2,
               rounds |-> proved.rounds,
               debug_ok |-> tx_ok /\ proved.debug_ok]

\* convert after its two ensure!, draw the scalars it draws, in order
ConvertWith(D, params, pks, message, signature, index, draw) ==
    ConvertBiased(D, params, pks, message, signature, index, draw, ZERO)

\* convert after its two ensure!, drawing from the generator in state seed
ConvertDraws(D, params, pks, message, signature, index, seed) ==
    ConvertWith(D, params, pks, message, signature, index,
                [k \in 1 .. 8 + 2 * Len(pks) |-> random(seed, k - 1)])

\* what convert returns when an ensure! fails
ConvertErr ==
    [status |-> "err", why |-> "", sig |-> NoIncognitoSignature,
     trace |-> [c |-> ZERO, c_z |-> ZERO, y |-> ZERO, w |-> ZERO, x |-> ZERO, d |-> ZERO,
                t0 |-> ZERO, t1 |-> ZERO, t2 |-> ZERO,
                vec_l |-> << >>, vec_r |-> << >>, r_beta |-> ZERO],
     base1 |-> << >>, base2 |-> << >>, rounds |-> << >>, debug_ok |-> TRUE]

\* the body of convert: pks[index] and self.vec_g[i], self.vec_h[i] for i < n
\* panic when the index is out of range
ConvertBody(D, params, pks, message, signature, index, seed) ==
    IF index >= Len(pks) \/ Len(pks) > MAXN
    THEN [ConvertErr EXCEPT !.status = "panic", !.why = "index"]
    ELSE ConvertDraws(D, params, pks, message, signature, index, seed)

\* convert with its second ensure! off by one
IncognitoConvertOffByOne(D, params, pks, message, signature, index, seed) ==
    IF ~(Len(pks) <= MAXN) THEN ConvertErr
    ELSE IF ~(index <= Len(pks)) THEN ConvertErr
    ELSE ConvertBody(D, params, pks, message, signature, index, seed)

\* convert with a third ensure!, that the ring length is a power of two
IncognitoConvertPowerOfTwo(D, params, pks, message, signature, index, seed) ==
    IF ~(Len(pks) <= MAXN) THEN ConvertErr
    ELSE IF ~(index < Len(pks)) THEN ConvertErr
    ELSE IF ~(\E k \in 0 .. Len(pks) : usize_pow2(k) = Len(pks)) THEN ConvertErr
    ELSE ConvertBody(D, params, pks, message, signature, index, seed)

\* IncognitoParams::convert
IncognitoConvert(D, params, pks, message, signature, index, seed) ==
    IF ~(Len(pks) <= MAXN) THEN ConvertErr
    ELSE IF ~(index < Len(pks)) THEN ConvertErr
    ELSE ConvertBody(D, params, pks, message, signature, index, seed)

\* the first ensure! of verify taken out
VerifyCheck1Skipped(params, sig, c, c_z) == TRUE

\* the first ensure! of verify without the term of the committed key
VerifyCheck1NoKey(params, sig, c, c_z) ==
    PAdd(PMul(generator, sig.s_z), PMul(PMul(params.g, sig.s_beta), c))
      = PAdd(sig.point_r_z, PMul(sig.point_r, c_z))

\* the first ensure! of verify
VerifyCheck1(params, sig, c, c_z) ==
    PAdd(PMul(generator, sig.s_z), PMul(PMul(params.g, sig.s_beta), c))
      = PAdd(PAdd(sig.point_r_z, PMul(sig.point_r, c_z)),
             PMul(PMul(sig.point_c_pk, c_z), c))

\* a verify without its second ensure!
VerifyCheck2Skipped(params, sig, t0, x) == TRUE

\* the second ensure! of verify
VerifyCheck2(params, sig, t0, x) ==
    PAdd(PMul(generator, sig.tx), PMul(params.h, sig.taux))
      = PAdd(PAdd(PMul(generator, t0), PMul(sig.point_t1, x)),
             PMul(PMul(sig.point_t2, x), x))

\* bulletproof_base2 without the powers of the inverse of y
VerifyBase2Plain(params, n, vec_yn_inv) ==
    [i \in 1 .. n |-> params.vec_h[i]]

\* bulletproof_base1 and bulletproof_base2 of verify
VerifyBase1(params, pks, n, d) ==
    [i \in 1 .. n |-> PAdd(params.vec_g[i], PMul(pks[i], d))]
VerifyBase2(params, n, vec_yn_inv) ==
    [i \in 1 .. n |-> PMul(params.vec_h[i], vec_yn_inv[i])]

\* point_1 without the challenge d
VerifyPoint1NoD(params, sig, d) ==
    PAdd(PMul(params.g, sig.nu), PMul(params.h, sig.mu))

\* point_1 = self.g * d * nu + self.h * mu
VerifyPoint1(params, sig, d) ==
    PAdd(PMul(PMul(params.g, d), sig.nu), PMul(params.h, sig.mu))

\* point_2 and the loop that adds the bases to it
VerifyPoint2(params, pks, sig, n, x, d, w, vec_yn, vec_yn_inv) ==
    PAdd(PAdd(PAdd(PAdd(sig.point_a, PMul(sig.point_s, x)), PMul(sig.point_c_pk, d)),
              PMul(PMul(sig.point_s_pk, x), d)),
         SumPoints([i \in 1 .. n |->
            PAdd(PMul(PAdd(params.vec_g[i], PMul(pks[i], d)), SNeg(w)),
                 PMul(PMul(params.vec_h[i], vec_yn_inv[i]),
                      SAdd(SMul(w, vec_yn[i]), SMul(w, w))))]))

\* the part of verify after its second ensure!
VerifyTail(D, params, pks, sig, n, y, w, x, trace) ==
    IF ~Invertible(y) THEN [status |-> "panic", trace |-> trace]
    \* self.vec_g[i] with i >= MAXN is out of the array's bounds
    ELSE IF n > MAXN THEN [status |-> "panic", trace |-> trace]
    ELSE
      LET vec_yn == build_vec_yn(n, y)
          vec_yn_inv == build_vec_yn(n, invert(y))
          d == challenge_d(D, x, sig.taux, sig.mu, sig.nu, sig.tx)
          point_1 == VerifyPoint1(params, sig, d)
          point_2 == VerifyPoint2(params, pks, sig, n, x, d, w, vec_yn, vec_yn_inv)
          bulletproof_base1 == VerifyBase1(params, pks, n, d)
          bulletproof_base2 == VerifyBase2(params, n, vec_yn_inv)
          bp == BulletVerify(D, sig.bulletproof, bulletproof_base1, bulletproof_base2)
          tr == [trace EXCEPT !.d = d, !.base1 = bulletproof_base1,
                              !.base2 = bulletproof_base2, !.rounds = bp.rounds,
                              !.reached = 3]
      IN  IF bp.status # "ok" THEN [status |-> bp.status, trace |-> tr]
          ELSE IF ~(PAdd(point_1, sig.bulletproof.target) = point_2)
               THEN [status |-> "err", trace |-> [tr EXCEPT !.reached = 4]]
               ELSE [status |-> "ok", trace |-> [tr EXCEPT !.reached = 4]]

\* verify that returns Ok(()) as soon as its first ensure! holds
IncognitoVerifyEarlyAccept(D, params, pks, message, sig) ==
    LET c == SchnorrChallenge(D, sig.point_r, message)
        c_z == challenge_cz(D, sig.point_r_z, sig.point_c_pk)
        trace == [c |-> c, c_z |-> c_z, y |-> ZERO, w |-> ZERO, x |-> ZERO, d |-> ZERO,
                  base1 |-> << >>, base2 |-> << >>, rounds |-> << >>, reached |-> 1]
    IN  IF VerifyCheck1(params, sig, c, c_z)
        THEN [status |-> "ok", trace |-> trace]
        ELSE [status |-> "err", trace |-> trace]

\* a verify whose challenge c_z hashes the message as well
IncognitoVerifyMessageInCz(D, params, pks, message, sig) ==
    LET n == Len(pks)
        c == SchnorrChallenge(D, sig.point_r, message)
        c_z == reduce_bytes(Digest(D, to_bytes(sig.point_r_z) \o to_bytes(sig.point_c_pk)
                                        \o message))
        y == challenge_y(D, params.g, sig.point_a, sig.point_s, sig.point_s_pk, sig.point_c_pk)
        w == challenge_w(D, params.g, sig.point_a, sig.point_s, sig.point_s_pk, sig.point_c_pk)
        trace == [c |-> c, c_z |-> c_z, y |-> y, w |-> w, x |-> ZERO, d |-> ZERO,
                  base1 |-> << >>, base2 |-> << >>, rounds |-> << >>, reached |-> 1]
    IN  IF ~VerifyCheck1(params, sig, c, c_z)
        THEN [status |-> "err", trace |-> trace]
        ELSE
          LET x == challenge_x(D, sig.point_t1, sig.point_t2, y, w)
              t0 == PolyT0(n, y, w)
              tr == [trace EXCEPT !.x = x, !.reached = 2]
          IN  IF ~VerifyCheck2(params, sig, t0, x)
              THEN [status |-> "err", trace |-> tr]
              ELSE VerifyTail(D, params, pks, sig, n, y, w, x, tr)

\* IncognitoParams::verify: "ok", "err" (an ensure! failed) or "panic";
\* trace.reached is the last of its four checks that was evaluated
IncognitoVerify(D, params, pks, message, sig) ==
    LET n == Len(pks)
        c == SchnorrChallenge(D, sig.point_r, message)
        c_z == challenge_cz(D, sig.point_r_z, sig.point_c_pk)
        y == challenge_y(D, params.g, sig.point_a, sig.point_s, sig.point_s_pk, sig.point_c_pk)
        w == challenge_w(D, params.g, sig.point_a, sig.point_s, sig.point_s_pk, sig.point_c_pk)
        trace == [c |-> c, c_z |-> c_z, y |-> y, w |-> w, x |-> ZERO, d |-> ZERO,
                  base1 |-> << >>, base2 |-> << >>, rounds |-> << >>, reached |-> 1]
    IN  IF ~VerifyCheck1(params, sig, c, c_z)
        THEN [status |-> "err", trace |-> trace]
        ELSE
          LET x == challenge_x(D, sig.point_t1, sig.point_t2, y, w)
              t0 == PolyT0(n, y, w)
              tr == [trace EXCEPT !.x = x, !.reached = 2]
          IN  IF ~VerifyCheck2(params, sig, t0, x)
              THEN [status |-> "err", trace |-> tr]
              ELSE VerifyTail(D, params, pks, sig, n, y, w, x, tr)

---------------------------------------------------------------------------
(* The wire forms: *Serde structs of affine points, written and read by bincode *)

\* ProjectivePoint::to_affine: the point at infinity, or the coordinate x
\* (shared by a point and its negative) and the parity of y
to_affine(p) ==
    IF p = identity THEN [infinity |-> TRUE, x |-> 0, y_odd |-> FALSE]
    ELSE IF 2 * p < Q THEN [infinity |-> FALSE, x |-> p, y_odd |-> FALSE]
    ELSE [infinity |-> FALSE, x |-> Q - p, y_odd |-> TRUE]

\* ProjectivePoint::from(AffinePoint)
from_affine(a) ==
    IF a.infinity THEN identity
    ELSE IF a.y_odd THEN Q - a.x ELSE a.x

\* an affine point on the wire: the tag (0 infinity, 2 even y, 3 odd y), then x
EncodePoint(a) ==
    IF a.infinity THEN << 0, 0 >>
    ELSE << IF a.y_odd THEN 3 ELSE 2, a.x >>

\* the affine point read at position pos
DecodePoint(bytes, pos) ==
    [infinity |-> bytes[pos] = 0,
     x |-> IF bytes[pos] = 0 THEN 0 ELSE bytes[pos + 1],
     y_odd |-> bytes[pos] = 3]

\* a Vec of affine points on the wire: its length, then its entries
RECURSIVE EncodePoints(_)
EncodePoints(v) ==
    IF Len(v) = 0 THEN << >> ELSE EncodePoint(Head(v)) \o EncodePoints(Tail(v))
EncodeVec(v) == << Len(v) >> \o EncodePoints(v)

\* the Vec of affine points read at position pos, and the bytes it takes
DecodeVec(bytes, pos) ==
    [i \in 1 .. bytes[pos] |-> DecodePoint(bytes, pos + 1 + 2 * (i - 1))]
VecSize(bytes, pos) == 1 + 2 * bytes[pos]

\* From<SchnorrSignature> for SchnorrSignatureSerde
SchnorrSignatureIntoSerde(value) ==
    [point_r |-> to_affine(value.point_r), z |-> value.z]

\* From<SchnorrSignatureSerde> for SchnorrSignature
SchnorrSignatureFromSerde(value) ==
    [point_r |-> from_affine(value.point_r), z |-> value.z]

\* bincode::serialize / deserialize of a SchnorrSignature
SerializeSchnorrSignature(sig) ==
    LET v == SchnorrSignatureIntoSerde(sig)
    IN  EncodePoint(v.point_r) \o to_repr(v.z)
DeserializeSchnorrSignature(bytes) ==
    SchnorrSignatureFromSerde([point_r |-> DecodePoint(bytes, 1), z |-> bytes[3]])

\* From<BulletProof> for BulletProofSerde
BulletProofIntoSerde(value) ==
    [target |-> to_affine(value.target),
     vec_point_l |-> [i \in 1 .. Len(value.vec_point_l) |-> to_affine(value.vec_point_l[i])],
     vec_point_r |-> [i \in 1 .. Len(value.vec_point_r) |-> to_affine(value.vec_point_r[i])],
     l |-> value.l,
     r |-> value.r]

\* From<BulletProofSerde> for BulletProof
BulletProofFromSerde(value) ==
    [target |-> from_affine(value.target),
     vec_point_l |-> [i \in 1 .. Len(value.vec_point_l) |-> from_affine(value.vec_point_l[i])],
     vec_point_r |-> [i \in 1 .. Len(value.vec_point_r) |-> from_affine(value.vec_point_r[i])],
     l |-> value.l,
     r |-> value.r]

\* bincode::serialize / deserialize of a BulletProof
SerializeBulletProof(proof) ==
    LET v == BulletProofIntoSerde(proof)
    IN  EncodePoint(v.target) \o EncodeVec(v.vec_point_l) \o EncodeVec(v.vec_point_r)
          \o to_repr(v.l) \o to_repr(v.r)
DeserializeBulletProof(bytes, pos) ==
    LET at_l == pos + 2
        at_r == at_l + VecSize(bytes, at_l)
        at_s == at_r + VecSize(bytes, at_r)
    IN  BulletProofFromSerde(
          [target |-> DecodePoint(bytes, pos),
           vec_point_l |-> DecodeVec(bytes, at_l),
           vec_point_r |-> DecodeVec(bytes, at_r),
           l |-> bytes[at_s],
           r |-> bytes[at_s + 1]])

\* From<IncognitoSignature> for IncognitoSignatureSerde
IncognitoSignatureIntoSerde(value) ==
    [point_r |-> to_affine(value.point_r),
     point_c_pk |-> to_affine(value.point_c_pk),
     point_r_z |-> to_affine(value.point_r_z),
     s_z |-> value.s_z,
     s_beta |-> value.s_beta,
     point_a |-> to_affine(value.point_a),
     point_s |-> to_affine(value.point_s),
     point_s_pk |-> to_affine(value.point_s_pk),
     point_t1 |-> to_affine(value.point_t1),
     point_t2 |-> to_affine(value.point_t2),
     taux |-> value.taux,
     mu |-> value.mu,
     nu |-> value.nu,
     tx |-> value.tx,
     bulletproof |-> value.bulletproof]

\* the conversion with point_t1 and point_t2 exchanged
IncognitoSignatureFromSerdeSwapped(value) ==
    [point_r |-> from_affine(value.point_r),
     point_c_pk |-> from_affine(value.point_c_pk),
     point_r_z |-> from_affine(value.point_r_z),
     s_z |-> value.s_z,
     s_beta |-> value.s_beta,
     point_a |-> from_affine(value.point_a),
     point_s |-> from_affine(value.point_s),
     point_s_pk |-> from_affine(value.point_s_pk),
     point_t1 |-> from_affine(value.point_t2),
     point_t2 |-> from_affine(value.point_t1),
     taux |-> value.taux,
     mu |-> value.mu,
     nu |-> value.nu,
     tx |-> value.tx,
     bulletproof |-> value.bulletproof]

\* From<IncognitoSignatureSerde> for IncognitoSignature
IncognitoSignatureFromSerde(value) ==
    [point_r |-> from_affine(value.point_r),
     point_c_pk |-> from_affine(value.point_c_pk),
     point_r_z |-> from_affine(value.point_r_z),
     s_z |-> value.s_z,
     s_beta |-> value.s_beta,
     point_a |-> from_affine(value.point_a),
     point_s |-> from_affine(value.point_s),
     point_s_pk |-> from_affine(value.point_s_pk),
     point_t1 |-> from_affine(value.point_t1),
     point_t2 |-> from_affine(value.point_t2),
     taux |-> value.taux,
     mu |-> value.mu,
     nu |-> value.nu,
     tx |-> value.tx,
     bulletproof |-> value.bulletproof]

\* bincode::serialize / deserialize of an IncognitoSignature; the field
\* bulletproof of the Serde struct is a BulletProof, written in its own wire form
SerializeIncognitoSignature(sig) ==
    LET v == IncognitoSignatureIntoSerde(sig)
    IN  EncodePoint(v.point_r) \o EncodePoint(v.point_c_pk) \o EncodePoint(v.point_r_z)
          \o to_repr(v.s_z) \o to_repr(v.s_beta)
          \o EncodePoint(v.point_a) \o EncodePoint(v.point_s) \o EncodePoint(v.point_s_pk)
          \o EncodePoint(v.point_t1) \o EncodePoint(v.point_t2)
          \o to_repr(v.taux) \o to_repr(v.mu) \o to_repr(v.nu) \o to_repr(v.tx)
          \o SerializeBulletProof(v.bulletproof)
DeserializeIncognitoSignature(bytes) ==
    IncognitoSignatureFromSerde(
      [point_r |-> DecodePoint(bytes, 1),
       point_c_pk |-> DecodePoint(bytes, 3),
       point_r_z |-> DecodePoint(bytes, 5),
       s_z |-> bytes[7],
       s_beta |-> bytes[8],
       point_a |-> DecodePoint(bytes, 9),
       point_s |-> DecodePoint(bytes, 11),
       point_s_pk |-> DecodePoint(bytes, 13),
       point_t1 |-> DecodePoint(bytes, 15),
       point_t2 |-> DecodePoint(bytes, 17),
       taux |-> bytes[19],
       mu |-> bytes[20],
       nu |-> bytes[21],
       tx |-> bytes[22],
       bulletproof |-> DeserializeBulletProof(bytes, 23)])

\* From<IncognitoParams> for IncognitoParamsSerde
IncognitoParamsIntoSerde(value) ==
    [g |-> to_affine(value.g),
     h |-> to_affine(value.h),
     vec_g |-> [i \in 1 .. Len(value.vec_g) |-> to_affine(value.vec_g[i])],
     vec_h |-> [i \in 1 .. Len(value.vec_h) |-> to_affine(value.vec_h[i])]]

\* From<IncognitoParamsSerde> for IncognitoParams: try_into().unwrap() panics
\* unless both vectors have MAXN entries
IncognitoParamsFromSerde(value) ==
    IF Len(value.vec_g) # MAXN \/ Len(value.vec_h) # MAXN
    THEN [status |-> "panic",
          params |-> [g |-> identity, h |-> identity, vec_g |-> << >>, vec_h |-> << >>]]
    ELSE [status |-> "ok",
          params |-> [g |-> from_affine(value.g),
                      h |-> from_affine(value.h),
                      vec_g |-> [i \in 1 .. MAXN |-> from_affine(value.vec_g[i])],
                      vec_h |-> [i \in 1 .. MAXN |-> from_affine(value.vec_h[i])]]]

\* bincode::serialize / deserialize of IncognitoParams
SerializeIncognitoParams(value) ==
    LET v == IncognitoParamsIntoSerde(value)
    IN  EncodePoint(v.g) \o EncodePoint(v.h) \o EncodeVec(v.vec_g) \o EncodeVec(v.vec_h)
DeserializeIncognitoParams(bytes) ==
    IncognitoParamsFromSerde(
      [g |-> DecodePoint(bytes, 1),
       h |-> DecodePoint(bytes, 3),
       vec_g |-> DecodeVec(bytes, 5),
       vec_h |-> DecodeVec(bytes, 5 + VecSize(bytes, 5))])
---------------------------------------------------------------------------
(* State *)

VARIABLES
    digest,     \* the digest D the calls are instantiated with
    rng,        \* the state of the thread's ThreadRng
    pc,         \* the last call made
    s_sk,       \* the key sign was called with
    s_msg,      \* the message sign was called with
    s_sig,      \* the SchnorrSignature at hand
    s_ver,      \* the last SchnorrSignature::verify call, [pk, message, result]
    b_in,       \* the arguments of BulletProof::prove
    b_out,      \* what BulletProof::prove returned
    b_ver,      \* what BulletProof::verify returned
    params,     \* the IncognitoParams
    sks,        \* the secret keys of the users
    pks,        \* the ring handed to convert and verify
    i_signer,   \* the user who signed (from 0)
    i_index,    \* the index handed to convert (from 0)
    i_conv,     \* what convert returned
    i_sig,      \* the IncognitoSignature handed to verify
    i_tamper,   \* the field of i_sig changed on the wire
    i_ver,      \* the last IncognitoParams::verify call, [message, status, trace]
    par         \* the calls running in parallel on the shared parameters

sVars == << s_sk, s_msg, s_sig, s_ver >>
bVars == << b_in, b_out, b_ver >>
iVars == << params, sks, pks, i_signer, i_index, i_conv, i_sig, i_tamper, i_ver >>
vars == << digest, rng, pc, sVars, bVars, iVars, par >>

\* values of the variables no call has set yet
NoPar == [seed |-> 0, rngs |-> << >>, tasks |-> << >>]
NoSchnorrSig == [point_r |-> identity, z |-> ZERO]
NoSchnorrVerify == [pk |-> identity, message |-> << >>, result |-> "none"]
NoBulletIn ==
    [vec_g |-> << >>, vec_h |-> << >>, vec_l |-> << >>, vec_r |-> << >>,
     target |-> identity]
NoBulletOut ==
    [status |-> "none", why |-> "", proof |-> NoBulletProof, rounds |-> << >>,
     debug_ok |-> TRUE]
NoBulletVerify ==
    [build |-> "none", proof |-> NoBulletProof, vec_g |-> << >>, vec_h |-> << >>,
     status |-> "none", rounds |-> << >>]
NoParams == [g |-> identity, h |-> identity, vec_g |-> << >>, vec_h |-> << >>]
NoConvert == [ConvertErr EXCEPT !.status = "none"]
NoVerify ==
    [ring |-> << >>, message |-> << >>, status |-> "none",
     trace |-> [c |-> ZERO, c_z |-> ZERO, y |-> ZERO, w |-> ZERO, x |-> ZERO, d |-> ZERO,
                base1 |-> << >>, base2 |-> << >>, rounds |-> << >>, reached |-> 0]]

SchnorrIdle ==
    /\ s_sk = ZERO
    /\ s_msg = << >>
    /\ s_sig = NoSchnorrSig
    /\ s_ver = NoSchnorrVerify

BulletIdle ==
    /\ b_in = NoBulletIn
    /\ b_out = NoBulletOut
    /\ b_ver = NoBulletVerify

IncognitoIdle ==
    /\ sks = << >>
    /\ pks = << >>
    /\ i_signer = 0
    /\ i_index = 0
    /\ i_conv = NoConvert
    /\ i_sig = NoIncognitoSignature
    /\ i_tamper = "none"
    /\ i_ver = NoVerify

---------------------------------------------------------------------------
(* Schnorr: sign, a signature value of any origin, verify *)

InitSchnorr ==
    /\ digest \in Digests
    /\ par = NoPar
    /\ rng \in Seeds
    /\ pc = "start"
    /\ SchnorrIdle
    /\ BulletIdle
    /\ params = NoParams
    /\ IncognitoIdle

\* test_sign: a signer calls sign(sk, m)
SSign ==
    /\ pc = "start"
    /\ \E sk \in Scalars, m \in Messages :
         /\ s_sk' = sk
         /\ s_msg' = m
         /\ s_sig' = SchnorrSign(digest, sk, m, rng)
    /\ rng' = Advance(rng, 1)
    /\ pc' = "signed"
    /\ UNCHANGED << digest, par, s_ver, bVars, iVars >>

\* a signature value that did not come from sign (any (R, z) deserializes)
SForge ==
    /\ pc = "start"
    /\ \E point_r \in Points, z \in Scalars :
         s_sig' = [point_r |-> point_r, z |-> z]
    /\ pc' = "forged"
    /\ UNCHANGED << digest, par, rng, s_sk, s_msg, s_ver, bVars, iVars >>

\* sig.verify(pk, m) on the signature at hand
SVerify ==
    /\ pc \in {"signed", "forged"}
    /\ \E pk \in Points, m \in Messages :
         s_ver' = [pk |-> pk, message |-> m,
                   result |-> SchnorrVerify(digest, s_sig, pk, m)]
    /\ pc' = IF pc = "signed" THEN "signed_verified" ELSE "forged_verified"
    /\ UNCHANGED << digest, par, rng, s_sk, s_msg, s_sig, bVars, iVars >>

NextSchnorr == SSign \/ SForge \/ SVerify

SpecSchnorr == InitSchnorr /\ [][NextSchnorr]_vars

---------------------------------------------------------------------------
(* BulletProof: prove on vectors drawn as test_correctness_n draws them,
   then verify with the same bases *)

\* the longest vectors handed to prove
MaxLen == 8

InitBullet ==
    /\ digest \in Digests
    /\ par = NoPar
    /\ rng \in Seeds
    /\ pc = "start"
    /\ SchnorrIdle
    /\ BulletIdle
    /\ params = NoParams
    /\ IncognitoIdle

\* l, r, g, h drawn in this order; target = sum of g[i] * l[i] + h[i] * r[i]
BProve ==
    /\ pc = "start"
    /\ \E n \in 0 .. MaxLen :
         LET l == [i \in 1 .. n |-> random(rng, i - 1)]
             r == [i \in 1 .. n |-> random(rng, n + i - 1)]
             g == [i \in 1 .. n |-> PMul(generator, random(rng, 2 * n + i - 1))]
             h == [i \in 1 .. n |-> PMul(generator, random(rng, 3 * n + i - 1))]
             target == Commit(n, g, l, h, r)
         IN  /\ b_in' = [vec_g |-> g, vec_h |-> h, vec_l |-> l, vec_r |-> r,
                         target |-> target]
             /\ b_out' = BulletProve(digest, g, h, l, r, target)
             /\ rng' = Advance(rng, 4 * n)
    /\ pc' = "proved"
    /\ UNCHANGED << digest, par, b_ver, sVars, iVars >>

\* what verify was handed, and what it returned
BulletVerified(build, proof, vec_g, vec_h) ==
    LET res == BulletVerifyBuild(build, digest, proof, vec_g, vec_h)
    IN  [build |-> build, proof |-> proof, vec_g |-> vec_g, vec_h |-> vec_h,
         status |-> res.status, rounds |-> res.rounds]

\* proof.verify(&g, &h)
BVerify ==
    /\ pc = "proved"
    /\ b_out.status = "ok"
    /\ \E build \in Builds :
         b_ver' = BulletVerified(build, b_out.proof, b_in.vec_g, b_in.vec_h)
    /\ pc' = "proof_verified"
    /\ UNCHANGED << digest, par, rng, b_in, b_out, sVars, iVars >>

\* the ways a vector handed to verify is made one entry shorter or longer
Mismatches == {"l_short", "r_short", "r_long", "g_short", "h_short", "h_long"}

\* v without its last entry
DropLast(v) == SubSeq(v, 1, Len(v) - 1)

\* proof.verify(&g, &h) with the lengths of L and R, or of g and h, differing
BVerifyMismatched ==
    /\ pc = "proved"
    /\ b_out.status = "ok"
    /\ \E kind \in Mismatches, p \in Points, build \in Builds :
         LET proof == b_out.proof
             g == b_in.vec_g
             h == b_in.vec_h
         IN  \/ /\ kind = "l_short" /\ Len(proof.vec_point_l) > 0
                /\ b_ver' = BulletVerified(build,
                     [proof EXCEPT !.vec_point_l = DropLast(@)], DropLast(g), DropLast(h))
             \/ /\ kind = "r_short" /\ Len(proof.vec_point_r) > 0
                /\ b_ver' = BulletVerified(build, [proof EXCEPT !.vec_point_r = DropLast(@)], g, h)
             \/ /\ kind = "r_long"
                /\ b_ver' = BulletVerified(build, [proof EXCEPT !.vec_point_r = Append(@, p)], g, h)
             \/ /\ kind = "g_short" /\ Len(g) > 0
                /\ b_ver' = BulletVerified(build, proof, DropLast(g), h)
             \/ /\ kind = "h_short" /\ Len(h) > 0
                /\ b_ver' = BulletVerified(build, proof, g, DropLast(h))
             \/ /\ kind = "h_long"
                /\ b_ver' = BulletVerified(build, proof, g, Append(h, p))
    /\ pc' = "mismatch_verified"
    /\ UNCHANGED << digest, par, rng, b_in, b_out, sVars, iVars >>

\* v followed by k copies of p
RECURSIVE Padded(_, _, _)
Padded(v, p, k) == IF k = 0 THEN v ELSE Padded(Append(v, p), p, k - 1)

\* proof.verify(&g, &h) on a proof whose L and R have as many entries as
\* usize has bits, with the bases of the proof or with no bases
BVerifyLong ==
    /\ pc = "proved"
    /\ b_out.status = "ok"
    /\ \E p \in Points, build \in Builds, empty \in BOOLEAN :
         LET k == UsizeBits - Len(b_out.proof.vec_point_l)
             proof == [b_out.proof EXCEPT !.vec_point_l = Padded(@, p, k),
                                          !.vec_point_r = Padded(@, p, k)]
         IN  b_ver' = IF empty THEN BulletVerified(build, proof, << >>, << >>)
                       ELSE BulletVerified(build, proof, b_in.vec_g, b_in.vec_h)
    /\ pc' = "long_verified"
    /\ UNCHANGED << digest, par, rng, b_in, b_out, sVars, iVars >>

NextBullet == BProve \/ BVerify \/ BVerifyMismatched \/ BVerifyLong

SpecBullet == InitBullet /\ [][NextBullet]_vars

---------------------------------------------------------------------------
(* Incognito: the parameters are set up, users draw their keys, one signs,
   the signature is converted for a ring, carried to the verifier (where a
   field may have been changed on the way) and verified *)

\* the messages signed and verified: one byte
IncognitoMessages == { m \in Messages : Len(m) = 1 }

\* the fields of a signature changed on the wire, and the values written
TamperedFields == {"point_c_pk", "s_z", "taux", "mu", "tx", "l"}

Init ==
    /\ digest \in Digests
    /\ par = NoPar
    /\ pc = "start"
    /\ \E seed \in Seeds :
         /\ params = IncognitoParamsNew(seed)
         /\ rng = Advance(seed, 2 + 2 * MAXN)
    /\ SchnorrIdle
    /\ BulletIdle
    /\ IncognitoIdle

\* MAXN + 1 users draw their keys; the first n public keys form the ring
KeyGen ==
    /\ pc = "start"
    /\ sks' = [i \in 1 .. MAXN + 1 |-> random(rng, i - 1)]
    /\ \E n \in 0 .. MAXN + 1 :
         pks' = [i \in 1 .. n |-> PMul(generator, sks'[i])]
    /\ rng' = Advance(rng, MAXN + 1)
    /\ pc' = "keys"
    /\ UNCHANGED << digest, par, sVars, bVars, params,
                    i_signer, i_index, i_conv, i_sig, i_tamper, i_ver >>

\* a user (a ring member, unless the ring is empty) signs a message
ISign ==
    /\ pc = "keys"
    /\ \E j \in 0 .. MAXN, m \in IncognitoMessages :
         /\ j < Len(pks) \/ j = 0
         /\ i_signer' = j
         /\ s_sk' = sks[j + 1]
         /\ s_msg' = m
         /\ s_sig' = SchnorrSign(digest, sks[j + 1], m, rng)
    /\ rng' = Advance(rng, 1)
    /\ pc' = "signed"
    /\ UNCHANGED << digest, par, s_ver, bVars, params, sks, pks,
                    i_index, i_conv, i_sig, i_tamper, i_ver >>

\* params.convert(&pks, &message, &signature, index)
IConvert ==
    /\ pc = "signed"
    /\ \E index \in 0 .. MAXN + 1 :
         /\ index <= Len(pks)
         /\ i_index' = index
         /\ i_conv' = IncognitoConvert(digest, params, pks, s_msg, s_sig, index, rng)
    /\ i_sig' = i_conv'.sig
    /\ rng' = IF i_conv'.status = "err" THEN rng ELSE Advance(rng, 8 + 2 * Len(pks))
    /\ pc' = "converted"
    /\ UNCHANGED << digest, par, sVars, bVars, params, sks, pks, i_signer, i_tamper, i_ver >>

\* one field of the signature is replaced by another value on the wire
ITamper ==
    /\ pc = "converted"
    /\ i_conv.status = "ok"
    /\ \E f \in TamperedFields, v \in Scalars :
         /\ i_tamper' = f
         /\ IF f = "l"
            THEN /\ v # i_sig.bulletproof.l
                 /\ i_sig' = [i_sig EXCEPT !.bulletproof.l = v]
            ELSE /\ v # i_sig[f]
                 /\ i_sig' = [i_sig EXCEPT ![f] = v]
    /\ pc' = "tampered"
    /\ UNCHANGED << digest, par, rng, sVars, bVars, params, sks, pks,
                    i_signer, i_index, i_conv, i_ver >>

\* params.verify(&pks, &message, &incsig)
IVerify ==
    /\ pc \in {"converted", "tampered"}
    /\ i_conv.status = "ok"
    /\ \E m \in IncognitoMessages :
         LET res == IncognitoVerify(digest, params, pks, m, i_sig)
         IN  i_ver' = [ring |-> pks, message |-> m,
                       status |-> res.status, trace |-> res.trace]
    /\ pc' = "verified"
    /\ UNCHANGED << digest, par, rng, sVars, bVars, params, sks, pks,
                    i_signer, i_index, i_conv, i_sig, i_tamper >>

Next == KeyGen \/ ISign \/ IConvert \/ ITamper \/ IVerify

Spec == Init /\ [][Next]_vars

---------------------------------------------------------------------------
(* The verifier is handed a ring of its own choosing: the first k of the
   public keys, 0 <= k <= MAXN + 1, whatever ring convert was given *)

\* the first k public keys
RingOf(k) == [i \in 1 .. k |-> PMul(generator, sks[i])]

\* params.verify(&ring, &message, &incsig), ring of any length
IVerifyRing ==
    /\ pc = "converted"
    /\ i_conv.status = "ok"
    /\ \E k \in 0 .. MAXN + 1, m \in IncognitoMessages :
         LET res == IncognitoVerify(digest, params, RingOf(k), m, i_sig)
         IN  i_ver' = [ring |-> RingOf(k), message |-> m,
                       status |-> res.status, trace |-> res.trace]
    /\ pc' = "ring_verified"
    /\ UNCHANGED << digest, par, rng, sVars, bVars, params, sks, pks,
                    i_signer, i_index, i_conv, i_sig, i_tamper >>

NextRing == KeyGen \/ ISign \/ IConvert \/ IVerifyRing

SpecRing == Init /\ [][NextRing]_vars

---------------------------------------------------------------------------
(* Conversions alone: keys, a Schnorr signature, its conversion *)

NextHide == KeyGen \/ ISign \/ IConvert

SpecHide == Init /\ [][NextHide]_vars

---------------------------------------------------------------------------
(* centbank / commbank: convert and verify calls run in parallel threads on
   one IncognitoParams.  A call is a sequence of steps, each reading the
   parameters as they are when it runs; the steps of the threads interleave. *)

\* the number of threads
NThreads == 2
Threads == 1 .. NThreads

\* the largest ring of the parallel calls
MaxParRing == 1

\* a call that took &mut self and overwrote the bases it read
AfterExclusiveBorrow(p) ==
    [p EXCEPT !.vec_g = [i \in 1 .. Len(p.vec_g) |-> identity]]

\* &self: what a step of convert or verify leaves of the parameters
AfterSharedBorrow(p) == p

\* the runs explore the interleavings under one digest
InitPar ==
    /\ digest = MaxDigest
    /\ pc = "start"
    /\ \E seed \in Seeds :
         /\ params = IncognitoParamsNew(seed)
         /\ rng = Advance(seed, 2 + 2 * MAXN)
         /\ par = [seed |-> seed, rngs |-> << >>, tasks |-> << >>]
    /\ SchnorrIdle
    /\ BulletIdle
    /\ IncognitoIdle

\* before the threads start: keys, a ring, a Schnorr signature of the first
\* user
PSetup ==
    /\ pc = "start"
    /\ sks' = [i \in 1 .. MAXN + 1 |-> random(rng, i - 1)]
    /\ \E n \in 1 .. MaxParRing :
         /\ n <= MAXN
         /\ pks' = [i \in 1 .. n |-> PMul(generator, sks'[i])]
    /\ s_sk' = sks'[1]
    /\ s_msg' = << 0 >>
    /\ s_sig' = SchnorrSign(digest, s_sk', s_msg', Advance(rng, MAXN + 1))
    /\ i_signer' = 0
    /\ rng' = Advance(rng, MAXN + 2)
    /\ pc' = "setup"
    /\ UNCHANGED << digest, par, s_ver, bVars, params,
                    i_index, i_conv, i_sig, i_tamper, i_ver >>

NoResult == [status |-> "none"]

\* set.spawn: every thread is given the index it converts the Schnorr
\* signature with, and verifies the signature it obtains; its ThreadRng is its
\* own
PSpawn ==
    /\ pc = "setup"
    /\ \E index \in [Threads -> 0 .. Len(pks)] :
         par' = [par EXCEPT
                   !.rngs = [t \in Threads |-> RngState(rng, t)],
                   !.tasks = [t \in Threads |->
                                [index |-> index[t], pc |-> "c0", seed |-> 0,
                                 converted |-> NoResult, verified |-> NoResult]]]
    /\ pc' = "parallel"
    /\ UNCHANGED << digest, rng, sVars, bVars, iVars >>

\* a step of convert in thread t: the two ensure!, the draws from the
\* thread's ThreadRng, the computation of the signature
ConvertStep(t) ==
    LET task == par.tasks[t]
    IN  \/ /\ task.pc = "c0"
           /\ par' = [par EXCEPT !.tasks[t] =
                        IF Len(pks) <= MAXN /\ task.index < Len(pks)
                        THEN [task EXCEPT !.pc = "c1"]
                        ELSE [task EXCEPT !.pc = "done", !.converted = ConvertErr]]
        \/ /\ task.pc = "c1"
           /\ par' = [par EXCEPT !.tasks[t] = [task EXCEPT !.pc = "c2",
                                                          !.seed = par.rngs[t]],
                                 !.rngs[t] = Advance(@, 8 + 2 * Len(pks))]
        \/ /\ task.pc = "c2"
           /\ \E res \in {IncognitoConvert(digest, params, pks, s_msg, s_sig,
                                           task.index, task.seed)} :
                par' = [par EXCEPT !.tasks[t] =
                          [task EXCEPT !.pc = IF res.status = "ok" THEN "v1" ELSE "done",
                                       !.converted = res]]

\* a step of verify in thread t, on the signature the thread converted: one
\* of its ensure!, the call ending at the first that fails
VerifyStep(t) ==
    LET task == par.tasks[t]
    IN  /\ task.pc \in {"v1", "v2", "v3"}
        /\ \E res \in {IncognitoVerify(digest, params, pks, s_msg, task.converted.sig)} :
             LET ends(k) == res.status = "err" /\ res.trace.reached = k
                 last == \/ task.pc = "v1" /\ ends(1)
                         \/ task.pc = "v2" /\ (ends(1) \/ ends(2))
                         \/ task.pc = "v3"
             IN  par' = [par EXCEPT !.tasks[t] =
                           IF last THEN [task EXCEPT !.pc = "done", !.verified = res]
                           ELSE [task EXCEPT !.pc = IF task.pc = "v1" THEN "v2" ELSE "v3"]]

\* a thread takes its next step
PStep ==
    /\ pc = "parallel"
    /\ \E t \in Threads : ConvertStep(t) \/ VerifyStep(t)
    /\ params' = AfterSharedBorrow(params)
    /\ UNCHANGED << digest, rng, pc, sVars, bVars,
                    sks, pks, i_signer, i_index, i_conv, i_sig, i_tamper, i_ver >>

NextPar == PSetup \/ PSpawn \/ PStep

SpecPar == InitPar /\ [][NextPar]_vars

---------------------------------------------------------------------------
(* test_serialization: the parameters and the signature go through their wire
   forms before verify *)

\* params_new.verify(&pks, &message, &incsig_new)
IVerifyDeserialized ==
    /\ pc = "converted"
    /\ i_conv.status = "ok"
    /\ \E m \in IncognitoMessages :
         LET params_new == DeserializeIncognitoParams(SerializeIncognitoParams(params))
             incsig_new == DeserializeIncognitoSignature(SerializeIncognitoSignature(i_sig))
             res == IF params_new.status = "panic"
                    THEN [status |-> "panic", trace |-> NoVerify.trace]
                    ELSE IncognitoVerify(digest, params_new.params, pks, m, incsig_new)
         IN  i_ver' = [ring |-> pks, message |-> m,
                       status |-> res.status, trace |-> res.trace]
    /\ pc' = "deserialized"
    /\ UNCHANGED << digest, par, rng, sVars, bVars, params, sks, pks,
                    i_signer, i_index, i_conv, i_sig, i_tamper >>

NextSerde == KeyGen \/ ISign \/ IConvert \/ IVerifyDeserialized

SpecSerde == Init /\ [][NextSerde]_vars

---------------------------------------------------------------------------
(* The loops of BulletProof::prove and BulletProof::verify, one pass of the
   loop body per step.  A call that has started goes on running: the
   specification is weakly fair on its steps. *)

\* the longest vectors whose loops are followed pass by pass
MaxLoopLen == 4

\* prove is called and reaches its loop: the locals are those of lines 54-63
LProveStart ==
    /\ pc = "start"
    /\ \E n \in 0 .. MaxLoopLen :
         LET l == [i \in 1 .. n |-> random(rng, i - 1)]
             r == [i \in 1 .. n |-> random(rng, n + i - 1)]
             g == [i \in 1 .. n |-> PMul(generator, random(rng, 2 * n + i - 1))]
             h == [i \in 1 .. n |-> PMul(generator, random(rng, 3 * n + i - 1))]
             target == Commit(n, g, l, h, r)
         IN  /\ b_in' = [vec_g |-> g, vec_h |-> h, vec_l |-> l, vec_r |-> r,
                         target |-> target]
             /\ b_out' = ProveInit(g, h, l, r, target)
             /\ rng' = Advance(rng, 4 * n)
    /\ pc' = "proving"
    /\ UNCHANGED << digest, par, b_ver, sVars, iVars >>

\* while n > 1: one pass through the body
LProveRound ==
    /\ pc = "proving"
    /\ b_out.status = "ok"
    /\ ProveContinues(b_out.n)
    /\ b_out' = ProveRound(digest, b_in.target, b_out)
    /\ UNCHANGED << digest, par, rng, pc, b_in, b_ver, sVars, iVars >>

\* the loop is left (n <= 1, or a panic in the body): prove returns
LProveReturn ==
    /\ pc = "proving"
    /\ ~(b_out.status = "ok" /\ ProveContinues(b_out.n))
    /\ b_out' = ProveReturn(b_in.target, b_out)
    /\ pc' = "proved"
    /\ UNCHANGED << digest, par, rng, b_in, b_ver, sVars, iVars >>

\* what verify is called with: the proof and its bases, the proof with R one
\* entry short, or a proof with L and R padded to the width of usize and no
\* bases
LoopInputs == {"honest", "r_short", "long"}

\* verify is called and runs up to its loop
LVerifyStart ==
    /\ pc = "proved"
    /\ b_out.status = "ok"
    /\ \E kind \in LoopInputs, build \in Builds, p \in Points :
         LET k == UsizeBits - Len(b_out.proof.vec_point_l)
             proof == CASE kind = "honest" -> b_out.proof
                        [] kind = "r_short" ->
                             [b_out.proof EXCEPT !.vec_point_r = DropLast(@)]
                        [] kind = "long" ->
                             [b_out.proof EXCEPT !.vec_point_l = Padded(@, p, k),
                                                 !.vec_point_r = Padded(@, p, k)]
             vec_g == IF kind = "long" THEN << >> ELSE b_in.vec_g
             vec_h == IF kind = "long" THEN << >> ELSE b_in.vec_h
             enter == VerifyEnter(build, proof, vec_g)
         IN  /\ kind = "r_short" => Len(b_out.proof.vec_point_r) > 0
             /\ b_ver' = [build |-> build, proof |-> proof,
                          vec_g |-> vec_g, vec_h |-> vec_h,
                          status |-> IF enter = "ok" THEN "running" ELSE enter,
                          rounds |-> << >>,
                          st |-> VerifyInit(proof, vec_g, vec_h), i |-> 1]
             /\ pc' = IF enter = "ok" THEN "verifying" ELSE "proof_verified"
    /\ UNCHANGED << digest, par, rng, b_in, b_out, sVars, iVars >>

\* for i in 0..self.vec_point_l.len(): one pass through the body
LVerifyRound ==
    /\ pc = "verifying"
    /\ b_ver.st.status = "ok"
    /\ VerifyContinues(b_ver.proof, b_ver.i)
    /\ b_ver' = [b_ver EXCEPT
                   !.st = VerifyRound(digest, b_ver.proof, b_ver.st, b_ver.i),
                   !.i = @ + 1]
    /\ UNCHANGED << digest, par, rng, pc, b_in, b_out, sVars, iVars >>

\* the loop is left (the range is exhausted, or a panic in the body): verify
\* returns
LVerifyReturn ==
    /\ pc = "verifying"
    /\ ~(b_ver.st.status = "ok" /\ VerifyContinues(b_ver.proof, b_ver.i))
    /\ LET res == VerifyReturn(b_ver.proof, b_ver.st)
       IN  b_ver' = [b_ver EXCEPT !.status = res.status, !.rounds = res.rounds]
    /\ pc' = "proof_verified"
    /\ UNCHANGED << digest, par, rng, b_in, b_out, sVars, iVars >>

NextLoop ==
    \/ LProveStart \/ LProveRound \/ LProveReturn
    \/ LVerifyStart \/ LVerifyRound \/ LVerifyReturn

SpecLoop == InitBullet /\ [][NextLoop]_vars /\ WF_vars(NextLoop)

---------------------------------------------------------------------------
(* A response scalar of the signature is replaced on the wire, and the
   verifier is handed the ring and the message of convert *)

\* the response scalars replaced
ResponseFields == {"s_z", "tx"}

\* s_z or tx of the signature is replaced by another scalar
ITamperResponse ==
    /\ pc = "converted"
    /\ i_conv.status = "ok"
    /\ \E f \in ResponseFields, v \in Scalars :
         /\ v # i_sig[f]
         /\ i_tamper' = f
         /\ i_sig' = [i_sig EXCEPT ![f] = v]
    /\ pc' = "tampered"
    /\ UNCHANGED << digest, par, rng, sVars, bVars, params, sks, pks,
                    i_signer, i_index, i_conv, i_ver >>

\* params.verify(&pks, &message, &incsig) on what arrived
IVerifyResponse ==
    /\ pc = "tampered"
    /\ LET res == IncognitoVerify(digest, params, pks, s_msg, i_sig)
       IN  i_ver' = [ring |-> pks, message |-> s_msg,
                     status |-> res.status, trace |-> res.trace]
    /\ pc' = "response_verified"
    /\ UNCHANGED << digest, par, rng, sVars, bVars, params, sks, pks,
                    i_signer, i_index, i_conv, i_sig, i_tamper >>

NextResponse == KeyGen \/ ISign \/ IConvert \/ ITamperResponse \/ IVerifyResponse

SpecResponse == Init /\ [][NextResponse]_vars

---------------------------------------------------------------------------
(* A converter of its own making: it runs the steps of convert on a Schnorr
   signature of its own, but commits in T1 to another coefficient than t1 and
   sends the matching tx; the verifier is handed the ring and the message *)

\* the converter builds its signature
IForge ==
    /\ pc = "signed"
    /\ 1 <= Len(pks) /\ Len(pks) <= MAXN
    /\ \E delta \in Scalars :
         i_conv' = ConvertBiased(digest, params, pks, s_msg, s_sig, i_signer,
                                 [k \in 1 .. 8 + 2 * Len(pks) |-> random(rng, k - 1)],
                                 delta)
    /\ i_index' = i_signer
    /\ i_sig' = i_conv'.sig
    /\ rng' = Advance(rng, 8 + 2 * Len(pks))
    /\ pc' = "forged"
    /\ UNCHANGED << digest, par, sVars, bVars, params, sks, pks, i_signer, i_tamper, i_ver >>

\* params.verify(&pks, &message, &incsig) on the signature so built
IVerifyForged ==
    /\ pc = "forged"
    /\ i_conv.status = "ok"
    /\ LET res == IncognitoVerify(digest, params, pks, s_msg, i_sig)
       IN  i_ver' = [ring |-> pks, message |-> s_msg,
                     status |-> res.status, trace |-> res.trace]
    /\ pc' = "forge_verified"
    /\ UNCHANGED << digest, par, rng, sVars, bVars, params, sks, pks,
                    i_signer, i_index, i_conv, i_sig, i_tamper >>

NextForge == KeyGen \/ ISign \/ IForge \/ IVerifyForged

SpecForge == Init /\ [][NextForge]_vars

---------------------------------------------------------------------------
(* Properties of Schnorr (checked under SpecSchnorr) *)

\* sign was called and the signature it returned was verified
SchnorrVerified == pc = "signed_verified"

\* H(R || m), written from the digest
H_sig(point_r, m) == Digest(digest, << point_r >> \o m) % Q

\* C2: Schnorr correctness.  For every secret scalar sk (0 included), every
\* message m and every nonce r drawn by sign, verify(pk = G * sk, m, sign(sk, m))
\* returns ok.
C2_SchnorrCorrectness ==
    (SchnorrVerified /\ s_ver.pk = PMul(generator, s_sk) /\ s_ver.message = s_msg)
      => s_ver.result = "ok"

\* a signature under a nonzero key with a nonzero challenge was verified
\* under its own key and message
C2_Witness ==
    /\ SchnorrVerified
    /\ s_sk # ZERO
    /\ H_sig(s_sig.point_r, s_msg) # ZERO
    /\ s_ver.pk = PMul(generator, s_sk)
    /\ s_ver.message = s_msg
    /\ s_ver.result = "ok"

\* C9: verify(pk, m, (R, z)) returns ok if and only if pk * H(R || m) + R = G * z
\* and an error in every other case, for signatures of any origin; in
\* particular a signature made with sk is rejected under any pk' # G * sk when
\* H(R || m) # 0.
C9_SchnorrVerifyIff ==
    (pc \in {"signed_verified", "forged_verified"}) =>
      LET h == H_sig(s_sig.point_r, s_ver.message)
          holds == (s_ver.pk * h + s_sig.point_r) % Q = (generator * s_sig.z) % Q
      IN  /\ s_ver.result \in {"ok", "err"}
          /\ s_ver.result = "ok" <=> holds
          /\ (/\ SchnorrVerified
              /\ s_ver.message = s_msg
              /\ s_ver.pk # PMul(generator, s_sk)
              /\ h # ZERO) => s_ver.result = "err"

\* a signature made with sk was verified against its message under another
\* key, the challenge being nonzero
C9_Witness ==
    /\ SchnorrVerified
    /\ s_ver.message = s_msg
    /\ s_ver.pk # PMul(generator, s_sk)
    /\ H_sig(s_sig.point_r, s_msg) # ZERO
    /\ s_ver.result = "err"

\* C10 as stated: for sig = sign(sk, m) and any message m' that differs from m,
\* verify(G * sk, m', sig) fails.
C10_AnyOtherMessageFails ==
    (SchnorrVerified /\ s_ver.pk = PMul(generator, s_sk) /\ s_ver.message # s_msg)
      => s_ver.result = "err"

\* C10 amended: for sig = sign(sk, m) and a message m' that differs from m,
\* verify(G * sk, m', sig) fails exactly when sk # 0 and H(R || m') # H(R || m);
\* under sk = 0 (pk the identity), or when the two challenges coincide, it
\* returns ok.
C10_OtherMessageFailsIff ==
    (SchnorrVerified /\ s_ver.pk = PMul(generator, s_sk) /\ s_ver.message # s_msg)
      => (s_ver.result = "err"
            <=> (s_sk # ZERO
                 /\ H_sig(s_sig.point_r, s_ver.message) # H_sig(s_sig.point_r, s_msg)))

\* a signature under a nonzero key was verified against another message
\* with another challenge, and rejected
C10_Witness ==
    /\ SchnorrVerified
    /\ s_ver.pk = PMul(generator, s_sk)
    /\ s_ver.message # s_msg
    /\ s_sk # ZERO
    /\ H_sig(s_sig.point_r, s_ver.message) # H_sig(s_sig.point_r, s_msg)
    /\ s_ver.result = "err"

---------------------------------------------------------------------------
(* Properties of BulletProof (checked under SpecBullet) *)

\* 2^k, the mathematical value
RECURSIVE Pow2(_)
Pow2(k) == IF k = 0 THEN 1 ELSE 2 * Pow2(k - 1)

IsPowerOfTwo(n) == \E k \in 0 .. n : Pow2(k) = n

\* C3: BulletProof completeness.  For every power-of-two n, all bases G, H and
\* scalar vectors l, r of length n and P = sum G_i * l_i + sum H_i * r_i, the
\* proof returned by prove(G, H, l, r, P) is accepted by verify(G, H) and its
\* target field equals the input P (not the folded point).
C3_BulletCompleteness ==
    /\ (pc \in {"proved", "proof_verified"} /\ b_out.status = "ok")
         => b_out.proof.target = b_in.target
    /\ (pc = "proof_verified" /\ IsPowerOfTwo(Len(b_in.vec_g)))
         => b_ver.status = "ok"

\* a proof over vectors of length 4, whose folded target differs from the
\* input, was accepted
C3_Witness ==
    /\ pc = "proof_verified"
    /\ Len(b_in.vec_g) = 4
    /\ Len(b_out.proof.vec_point_l) = 2
    /\ b_out.rounds[2].point_p # b_in.target
    /\ b_out.proof.target = b_in.target
    /\ b_ver.status = "ok"

---------------------------------------------------------------------------
(* Properties of Incognito (checked under Spec) *)

\* convert was called / verify was called
Converted == pc \in {"converted", "tampered", "verified"}
Verified == pc = "verified"

\* the signature verified is the one convert returned
Untampered == i_tamper = "none"

\* the index handed to convert is the signer's
HonestIndex == i_index = i_signer

\* the checks of verify, written from section 4.5 of the specification on the
\* integers modulo Q, for the ring pks, the message m and the signature sig
RECURSIVE IntPow(_, _)
IntPow(a, k) == IF k = 0 THEN 1 ELSE (a * IntPow(a, k - 1)) % Q
Mod(a) == ((a % Q) + Q) % Q
RECURSIVE IntSum(_, _)
IntSum(f(_), n) == IF n = 0 THEN 0 ELSE f(n) + IntSum(f, n - 1)

H_cz(sig) == Digest(digest, << sig.point_r_z, sig.point_c_pk >>) % Q
H_y(sig) ==
    Digest(digest, << params.g, sig.point_a, sig.point_s, sig.point_s_pk,
                      sig.point_c_pk, 0 >>) % Q
H_w(sig) ==
    Digest(digest, << params.g, sig.point_a, sig.point_s, sig.point_s_pk,
                      sig.point_c_pk, 1 >>) % Q
H_x(sig) == Digest(digest, << sig.point_t1, sig.point_t2, H_y(sig), H_w(sig) >>) % Q
H_d(sig) == Digest(digest, << H_x(sig), sig.taux, sig.mu, sig.nu, sig.tx >>) % Q

\* Check 1: G * s_z + g * (s_beta * c) = R_z + R * c_z + C_pk * (c_z * c)
Check1(m, sig) ==
    LET c == H_sig(sig.point_r, m)
        c_z == H_cz(sig)
    IN  Mod(generator * sig.s_z + params.g * (sig.s_beta * c))
          = Mod(sig.point_r_z + sig.point_r * c_z + sig.point_c_pk * (c_z * c))

\* Check 2: G * t_x + h * tau_x = G * t0 + T1 * x + T2 * x^2,
\* t0 = w^2 - w^3 * n + (w - w^2) * sum of y^i
Check2(sig) ==
    LET y == H_y(sig)
        w == H_w(sig)
        x == H_x(sig)
        n == Len(pks)
        sum_y == IntSum(LAMBDA i : IntPow(y, i - 1), n)
        t0 == Mod(w * w - w * w * w * n + (w - w * w) * sum_y)
    IN  Mod(generator * sig.tx + params.h * sig.taux)
          = Mod(generator * t0 + sig.point_t1 * x + sig.point_t2 * x * x)

\* the bases of the inner-product argument exist: y has an inverse and the
\* parameters hold a base for every ring member
BasesDefined(sig) == H_y(sig) # 0 /\ Len(pks) <= MAXN

\* G'_i = G_i + pk_i * d and H'_i = H_i * y^-i, i counted from 0
BaseG(sig) == [i \in 1 .. Len(pks) |-> Mod(params.vec_g[i] + pks[i] * H_d(sig))]
BaseH(sig) ==
    [i \in 1 .. Len(pks) |-> Mod(params.vec_h[i] * IntPow(invert(H_y(sig)), i - 1))]

\* Check 3: the embedded BulletProof verifies against G' and H'
BulletCheck(sig) == BulletVerify(digest, sig.bulletproof, BaseG(sig), BaseH(sig)).status

\* the final binding P1 + bulletproof.target = P2
Binding(sig) ==
    LET y == H_y(sig)
        w == H_w(sig)
        x == H_x(sig)
        d == H_d(sig)
        n == Len(pks)
        P1 == params.g * (d * sig.nu) + params.h * sig.mu
        P2 == sig.point_a + sig.point_s * x + sig.point_c_pk * d
                + sig.point_s_pk * (x * d)
                + IntSum(LAMBDA i : BaseG(sig)[i] * (Q - w), n)
                + IntSum(LAMBDA i : BaseH(sig)[i] * (w * IntPow(y, i - 1) + w * w), n)
    IN  Mod(P1 + sig.bulletproof.target) = Mod(P2)

\* C1: Incognito completeness.  For every power-of-two ring size n <= MAXN,
\* every index pi < n, every message m and keys pk_i = G * sk_i, with
\* sig = Schnorr.sign(sk_pi, m): convert(ring, m, sig, pi) returns a signature
\* (unless a Fiat-Shamir challenge has no inverse, when it panics on the
\* inverse) and verify(ring, m, that signature) returns ok.
C1_IncognitoCompleteness ==
    /\ (/\ Converted /\ HonestIndex
        /\ IsPowerOfTwo(Len(pks)) /\ Len(pks) <= MAXN /\ i_index < Len(pks))
         => (i_conv.status = "ok"
               \/ (i_conv.status = "panic" /\ i_conv.why = "invert"))
    /\ (/\ Verified /\ Untampered /\ HonestIndex
        /\ IsPowerOfTwo(Len(pks)) /\ i_ver.message = s_msg)
         => i_ver.status = "ok"

\* a ring of four, converted for the signer's index and verified against the
\* signed message, all the challenges being nonzero
C1_Witness ==
    /\ Verified /\ Untampered /\ HonestIndex
    /\ Len(pks) = 4
    /\ i_index = 2
    /\ i_ver.message = s_msg
    /\ i_conv.trace.c # 0 /\ i_conv.trace.c_z # 0 /\ i_conv.trace.w # 0
    /\ i_conv.trace.x # 0 /\ i_conv.trace.d # 0
    /\ i_ver.status = "ok"

\* C4: convert reports an error and produces no signature whenever the ring
\* length n exceeds MAXN or the index pi is >= n (so for every empty ring),
\* for every message and every Schnorr signature; what it returns is the same
\* error value whatever the ring elements and the parameter bases are.
C4_ConvertBadArguments ==
    (pc = "converted" /\ (Len(pks) > MAXN \/ i_index >= Len(pks)))
      => (i_conv = ConvertErr /\ i_sig = NoIncognitoSignature)

\* convert was called with the first index past the end of a ring of MAXN
C4_Witness ==
    /\ pc = "converted"
    /\ Len(pks) = MAXN
    /\ i_index = MAXN
    /\ i_conv.status = "err"

\* C5: verify returns ok only if Check 1, Check 2, the embedded BulletProof
\* against G', H' and the final binding all hold; when one of them fails the
\* result is an error whatever the others are (no early accept).
C5_VerifyAllChecks ==
    Verified =>
      LET c1 == Check1(i_ver.message, i_sig)
          c2 == Check2(i_sig)
      IN  /\ i_ver.status = "ok"
               => (/\ c1 /\ c2 /\ BasesDefined(i_sig)
                   /\ BulletCheck(i_sig) = "ok" /\ Binding(i_sig))
          /\ ~c1 => i_ver.status = "err"
          /\ ~c2 => i_ver.status = "err"
          /\ (c1 /\ c2 /\ BasesDefined(i_sig) /\ BulletCheck(i_sig) = "err")
               => i_ver.status = "err"
          /\ (c1 /\ c2 /\ BasesDefined(i_sig) /\ BulletCheck(i_sig) = "ok"
                 /\ ~Binding(i_sig))
               => i_ver.status = "err"

\* a signature that passes Check 1, Check 2 and the BulletProof and fails
\* only the final binding was rejected
C5_Witness ==
    /\ Verified
    /\ Check1(i_ver.message, i_sig) /\ Check2(i_sig)
    /\ BasesDefined(i_sig) /\ BulletCheck(i_sig) = "ok"
    /\ ~Binding(i_sig)
    /\ i_ver.status = "err"

\* the signature convert returned, verified against the signed message
SameMessage == i_ver.message = s_msg

\* convert was handed the index of a ring member other than the signer,
\* whose key differs from the signer's
WrongIndex ==
    /\ i_signer < Len(pks) /\ i_index < Len(pks)
    /\ i_index # i_signer
    /\ pks[i_index + 1] # pks[i_signer + 1]

\* C6 as stated: if sig = Schnorr.sign(sk_j, m) and convert is called with an
\* index pi # j whose key pk_pi differs from pk_j, the IncognitoSignature
\* returned by convert is rejected by verify(ring, m, .).
C6_WrongIndexRejected ==
    (Verified /\ Untampered /\ SameMessage /\ WrongIndex) => i_ver.status = "err"

\* C6 amended: under the same conditions the signature is rejected whenever
\* both challenges c = H_sig(R, m) and c_z = H_cz(R_z, C_pk) are nonzero; when
\* one of them is zero Check 1 holds, and on a power-of-two ring the signature
\* is accepted.
C6_WrongIndexRejectedIfChallengesNonzero ==
    (Verified /\ Untampered /\ SameMessage /\ WrongIndex) =>
      LET c == H_sig(i_sig.point_r, s_msg)
          c_z == H_cz(i_sig)
      IN  /\ (c # 0 /\ c_z # 0) => i_ver.status = "err"
          /\ (c = 0 \/ c_z = 0) => Check1(s_msg, i_sig)
          /\ ((c = 0 \/ c_z = 0) /\ IsPowerOfTwo(Len(pks))) => i_ver.status = "ok"

\* a signature converted for another member's index, with nonzero
\* challenges, was rejected
C6_Witness ==
    /\ Verified /\ Untampered /\ SameMessage /\ WrongIndex
    /\ H_sig(i_sig.point_r, s_msg) # 0
    /\ H_cz(i_sig) # 0
    /\ Len(pks) = 4
    /\ i_ver.status = "err"

\* C7 as stated: if an IncognitoSignature was produced by convert from an
\* honest Schnorr signature on m, verify(ring, m', signature) with any message
\* m' # m returns InvalidSignature.
C7_OtherMessageRejected ==
    (Verified /\ Untampered /\ HonestIndex /\ ~SameMessage) => i_ver.status = "err"

\* C7 amended: under the same conditions verify returns InvalidSignature
\* whenever H_sig(R, m') # H_sig(R, m) and g * r_beta # pk_pi * c_z (r_beta the
\* blinder drawn by convert); when one of the two fails Check 1 holds for m',
\* and on a power-of-two ring the signature is accepted.
C7_OtherMessageRejectedUnlessDegenerate ==
    (Verified /\ Untampered /\ HonestIndex /\ ~SameMessage) =>
      LET differ ==
            /\ H_sig(i_sig.point_r, i_ver.message) # H_sig(i_sig.point_r, s_msg)
            /\ Mod(params.g * i_conv.trace.r_beta) # Mod(pks[i_index + 1] * H_cz(i_sig))
      IN  /\ differ => i_ver.status = "err"
          /\ ~differ => Check1(i_ver.message, i_sig)
          /\ (~differ /\ IsPowerOfTwo(Len(pks))) => i_ver.status = "ok"

\* an honest conversion was verified against another message, the two
\* challenges and the two points differing, and rejected
C7_Witness ==
    /\ Verified /\ Untampered /\ HonestIndex /\ ~SameMessage
    /\ H_sig(i_sig.point_r, i_ver.message) # H_sig(i_sig.point_r, s_msg)
    /\ Mod(params.g * i_conv.trace.r_beta) # Mod(pks[i_index + 1] * H_cz(i_sig))
    /\ i_ver.status = "err"

\* only C_pk of the signature convert returned was replaced, by a different
\* point, and verify accepts the signature as convert returned it
KeyCommitmentReplaced ==
    /\ Verified
    /\ i_tamper = "point_c_pk"
    /\ i_sig.point_c_pk # i_conv.sig.point_c_pk
    /\ i_sig = [i_conv.sig EXCEPT !.point_c_pk = i_sig.point_c_pk]
    /\ IncognitoVerify(digest, params, pks, i_ver.message, i_conv.sig).status = "ok"

\* C8 as stated: if verify accepts an honestly converted IncognitoSignature,
\* the signature obtained by replacing only its C_pk field with any different
\* point is rejected by verify (same ring, message and parameters).
C8_ReplacedKeyCommitmentRejected ==
    KeyCommitmentReplaced => i_ver.status = "err"

\* R * c_z + C_pk * (c_z * c), the part of the right-hand side of Check 1
\* that depends on C_pk
Check1KeyTerm(m, sig) ==
    Mod(sig.point_r * H_cz(sig) + sig.point_c_pk * (H_cz(sig) * H_sig(sig.point_r, m)))

\* C8 amended: the signature with C_pk replaced by a different point C' is
\* rejected whenever R * c_z' + C' * (c_z' * c) # R * c_z + C_pk * (c_z * c),
\* c_z' = H_cz(R_z, C') being the challenge recomputed from C'; it is accepted
\* only if that equality holds together with Check 2, the BulletProof
\* verification and the binding check under the recomputed y, w, x, d.
C8_ReplacedKeyCommitmentRejectedUnlessCheck1 ==
    KeyCommitmentReplaced =>
      LET same == Check1KeyTerm(i_ver.message, i_sig)
                    = Check1KeyTerm(i_ver.message, i_conv.sig)
      IN  /\ ~same => i_ver.status = "err"
          /\ same <=> Check1(i_ver.message, i_sig)
          /\ i_ver.status = "ok"
               => (/\ same /\ Check2(i_sig) /\ BasesDefined(i_sig)
                   /\ BulletCheck(i_sig) = "ok" /\ Binding(i_sig))

\* an accepted signature whose C_pk was replaced, the two sides of Check 1
\* then differing, was rejected
C8_Witness ==
    /\ KeyCommitmentReplaced
    /\ Check1KeyTerm(i_ver.message, i_sig) # Check1KeyTerm(i_ver.message, i_conv.sig)
    /\ i_ver.status = "err"

---------------------------------------------------------------------------
(* Properties of verify on rings of any length (checked under SpecRing) *)

RingVerified == pc = "ring_verified"

\* C11: Incognito.verify is total: for every ring (longer than MAXN and empty
\* included), message and signature it returns ok or an error value and never
\* aborts (no out-of-bounds access on the MAXN-sized bases, no failed unwrap).
C11_VerifyTotal ==
    RingVerified => i_ver.status \in {"ok", "err"}

---------------------------------------------------------------------------
(* Properties of BulletProof on malformed inputs (checked under SpecBullet) *)

BulletVerifyReturned == pc \in {"proof_verified", "mismatch_verified", "long_verified"}

\* C12: BulletProof.verify surfaces mismatched vector lengths as an error
\* value: whenever the proof's L and R differ in length, or the bases G and H
\* differ in length, verify returns an error; it neither accepts nor aborts.
C12_MismatchedLengthsRejected ==
    (/\ BulletVerifyReturned
     /\ \/ Len(b_ver.proof.vec_point_l) # Len(b_ver.proof.vec_point_r)
        \/ Len(b_ver.vec_g) # Len(b_ver.vec_h))
      => b_ver.status = "err"

\* C13: BulletProof.verify fails with an error value whenever the number of
\* bases |G| differs from the mathematical value 2^|L|, for every length of L,
\* those at or above the width of usize (where 2^|L| wraps) included.
C13_WrongBaseCountRejected ==
    (BulletVerifyReturned /\ Len(b_ver.vec_g) # Pow2(Len(b_ver.proof.vec_point_l)))
      => b_ver.status = "err"

\* prove returned a proof in the build: it did not panic, and with debug
\* assertions on every debug_assert_eq! of its rounds held
ProofReturned(build) ==
    /\ pc = "proved"
    /\ b_out.status = "ok"
    /\ build = "debug" => b_out.debug_ok

\* C14: BulletProof.prove requires the vector length n = |G| to be a power of
\* two: for any other n (n = 0 and odd n > 1 included) it returns no proof.
C14_ProveRequiresPowerOfTwo ==
    (pc = "proved" /\ ~IsPowerOfTwo(Len(b_in.vec_g)))
      => \A build \in Builds : ~ProofReturned(build)

---------------------------------------------------------------------------
(* Properties of convert on rings that are no power of two (checked under Spec) *)

\* convert was called on a ring of at most MAXN keys, not a power of two, with
\* an index inside the ring
OddRingConverted ==
    /\ pc = "converted"
    /\ Len(pks) <= MAXN
    /\ ~IsPowerOfTwo(Len(pks))
    /\ i_index < Len(pks)

\* convert called BulletProof::prove with bases and vectors of length n
ProofStepEntered(n) ==
    /\ Len(i_conv.base1) = n
    /\ Len(i_conv.base2) = n
    /\ Len(i_conv.trace.vec_l) = n
    /\ Len(i_conv.trace.vec_r) = n

\* C15 as stated: for a ring whose length n <= MAXN is not a power of two and
\* an index pi < n, convert does not return BadArguments but proceeds into the
\* inner-product proof step with vectors of length n.
C15_OddRingReachesProof ==
    OddRingConverted => (i_conv.status # "err" /\ ProofStepEntered(Len(pks)))

\* C15 amended: under the same conditions convert does not return BadArguments;
\* it proceeds into the inner-product proof step with vectors of length n
\* whenever the challenge y is nonzero, and aborts at the inversion of y before
\* that step when y = 0.
C15_OddRingReachesProofUnlessZeroY ==
    OddRingConverted =>
      /\ i_conv.status # "err"
      /\ i_conv.trace.y # 0 => ProofStepEntered(Len(pks))
      /\ i_conv.trace.y = 0 =>
           (i_conv.status = "panic" /\ i_conv.why = "invert" /\ ~ProofStepEntered(Len(pks)))

\* convert on a ring of three keys went through the proof step and returned
\* a signature
C15_Witness ==
    /\ OddRingConverted
    /\ Len(pks) = 3
    /\ i_conv.trace.y # 0
    /\ ProofStepEntered(3)
    /\ Len(i_conv.rounds) = 1
    /\ i_conv.status = "ok"

---------------------------------------------------------------------------
(* Properties of the wire forms (checked under SpecSerde) *)

Deserialized == pc = "deserialized"

\* C16: serialization round trip.  For every SchnorrSignature, BulletProof,
\* IncognitoSignature and IncognitoParams x, deserialize(serialize(x)) equals x,
\* and verify gives the same result on the round-tripped signature and
\* parameters as on the originals.
C16_SerializationRoundTrip ==
    Deserialized =>
      /\ DeserializeSchnorrSignature(SerializeSchnorrSignature(s_sig)) = s_sig
      /\ DeserializeBulletProof(SerializeBulletProof(i_sig.bulletproof), 1)
           = i_sig.bulletproof
      /\ DeserializeIncognitoSignature(SerializeIncognitoSignature(i_sig)) = i_sig
      /\ DeserializeIncognitoParams(SerializeIncognitoParams(params))
           = [status |-> "ok", params |-> params]
      /\ LET res == IncognitoVerify(digest, params, pks, i_ver.message, i_sig)
         IN  i_ver.status = res.status /\ i_ver.trace = res.trace
      /\ \A pk \in Points :
           SchnorrVerify(digest,
                         DeserializeSchnorrSignature(SerializeSchnorrSignature(s_sig)),
                         pk, i_ver.message)
             = SchnorrVerify(digest, s_sig, pk, i_ver.message)
      /\ BulletVerify(digest,
                      DeserializeBulletProof(SerializeBulletProof(i_sig.bulletproof), 1),
                      i_conv.base1, i_conv.base2).status
           = BulletVerify(digest, i_sig.bulletproof, i_conv.base1, i_conv.base2).status

\* a signature on a ring of four keys, its two rounds of L and R, the point at
\* infinity and a point of odd y among its fields, verified after the round trip
C16_Witness ==
    /\ Deserialized
    /\ Len(pks) = 4
    /\ Len(i_sig.bulletproof.vec_point_l) = 2
    /\ i_sig.point_t1 # i_sig.point_t2
    /\ \E f \in {"point_a", "point_s", "point_s_pk", "point_t1", "point_t2"} :
         to_affine(i_sig[f]).infinity
    /\ \E f \in {"point_a", "point_s", "point_s_pk", "point_t1", "point_t2"} :
         to_affine(i_sig[f]).y_odd
    /\ i_ver.status = "ok"

---------------------------------------------------------------------------
(* Properties of parallel calls (checked under SpecPar) *)

\* the calls of a thread have returned
Done(t) == pc = "parallel" /\ par.tasks[t].pc = "done"

\* what convert returns to thread t when it runs alone, on the parameters as
\* constructed, with the same inputs and the same draws
ConvertAlone(t) ==
    IncognitoConvert(digest, IncognitoParamsNew(par.seed), pks, s_msg, s_sig,
                     par.tasks[t].index, par.tasks[t].seed)

\* what verify returns to thread t when it runs alone on the same inputs
VerifyAlone(t) ==
    IncognitoVerify(digest, IncognitoParamsNew(par.seed), pks, s_msg,
                    par.tasks[t].converted.sig)

---------------------------------------------------------------------------
(* Signer hiding (checked under SpecHide) *)

\* the scalar s with base * s = point (base is not the identity)
DLog(point, base) == SMul(point, invert(base))

PSub(p, q) == PAdd(p, PMul(q, SNeg(ONE)))

\* a signer of the ring converted their own Schnorr signature
HonestlyConverted ==
    /\ pc = "converted"
    /\ i_conv.status = "ok"
    /\ i_index = i_signer
    /\ Len(pks) >= 2

\* the honest Schnorr signature of ring member j with the nonce of s_sig
SchnorrSignatureOf(j) ==
    [point_r |-> s_sig.point_r,
     z |-> SAdd(s_sig.z, SMul(i_conv.trace.c, SSub(sks[j + 1], sks[i_signer + 1])))]

vec_b_of(j) == [i \in 1 .. Len(pks) |-> IF i = j + 1 THEN ONE ELSE ZERO]
vec_a_of(j) == [i \in 1 .. Len(pks) |-> SSub(vec_b_of(j)[i], ONE)]

\* the scalars convert has to draw for index j to sign with the vectors
\* vec_l, vec_r and the points and scalars of i_sig (x and y invertible)
DrawsFor(j) ==
    LET n == Len(pks)
        tr == i_conv.trace
        x_inv == invert(tr.x)
        vec_yn == build_vec_yn(n, tr.y)
        vec_b == vec_b_of(j)
        vec_a == vec_a_of(j)
        beta == DLog(PSub(i_sig.point_c_pk, pks[j + 1]), params.g)
        r_z == SSub(i_sig.s_z, SMul(tr.c_z, SchnorrSignatureOf(j).z))
        r_beta == SSub(i_sig.s_beta, SMul(tr.c_z, beta))
        vec_s_b == [i \in 1 .. n |->
                      SMul(SSub(tr.vec_l[i], SSub(vec_b[i], tr.w)), x_inv)]
        vec_s_a == [i \in 1 .. n |->
                      SMul(SSub(SMul(SSub(tr.vec_r[i], SMul(tr.w, tr.w)), invert(vec_yn[i])),
                                SAdd(vec_a[i], tr.w)),
                           x_inv)]
        alpha == DLog(PSub(i_sig.point_a,
                           Commit(n, params.vec_g, vec_b, params.vec_h, vec_a)),
                      params.h)
        rho == DLog(PSub(i_sig.point_s,
                         Commit(n, params.vec_g, vec_s_b, params.vec_h, vec_s_a)),
                    params.h)
        zeta == DLog(PSub(i_sig.point_s_pk,
                          SumPoints([i \in 1 .. n |-> PMul(pks[i], vec_s_b[i])])),
                     params.g)
        t1 == SumScalars([i \in 1 .. n |->
                 SAdd(SMul(vec_s_b[i], SAdd(SMul(vec_yn[i], SAdd(vec_a[i], tr.w)),
                                            SMul(tr.w, tr.w))),
                      SMul(SSub(vec_b[i], tr.w), SMul(vec_yn[i], vec_s_a[i])))])
        t2 == SumScalars([i \in 1 .. n |-> SMul(SMul(vec_s_b[i], vec_yn[i]), vec_s_a[i])])
        tau1 == DLog(PSub(i_sig.point_t1, PMul(generator, t1)), params.h)
        tau2 == DLog(PSub(i_sig.point_t2, PMul(generator, t2)), params.h)
    IN  << beta, r_z, r_beta, alpha, rho, zeta >> \o vec_s_a \o vec_s_b \o << tau1, tau2 >>

\* the proof convert returns for index j when x = 0: vec_l = b - w and
\* vec_r = y^n (a + w) + w^2 hold none of the scalars drawn
ProofAtZeroX(j) ==
    LET n == Len(pks)
        tr == i_conv.trace
        vec_yn == build_vec_yn(n, tr.y)
        vec_l == [i \in 1 .. n |-> SSub(vec_b_of(j)[i], tr.w)]
        vec_r == [i \in 1 .. n |->
                    SAdd(SMul(vec_yn[i], SAdd(vec_a_of(j)[i], tr.w)), SMul(tr.w, tr.w))]
    IN  BulletProve(digest, i_conv.base1, i_conv.base2, vec_l, vec_r,
                    Commit(n, i_conv.base1, vec_l, i_conv.base2, vec_r)).proof

\* the signature i_sig is one convert returns for ring member j, from j's
\* honest Schnorr signature: for some scalars drawn when x is invertible; when
\* x = 0 the scalars drawn do not enter the proof, which has to be j's
CouldBeFrom(j) ==
    IF i_conv.trace.x = ZERO
    THEN i_sig.bulletproof = ProofAtZeroX(j)
    ELSE LET other == ConvertWith(digest, params, pks, s_msg, SchnorrSignatureOf(j),
                                  j, DrawsFor(j))
         IN  /\ other.status = "ok"
             /\ other.sig = i_sig
             /\ other.trace.vec_l = i_conv.trace.vec_l
             /\ other.trace.vec_r = i_conv.trace.vec_r

OtherSignatureHonest(j) ==
    SchnorrVerify(digest, SchnorrSignatureOf(j), pks[j + 1], s_msg) = "ok"

\* C18 (as stated): signer hiding.  For a fixed ring and message, the signature
\* convert produces for signer index pi is one it produces for every other
\* index pi' (from that signer's honest Schnorr signature), so that nothing
\* computed from the signature and the public inputs tells pi from pi'.
C18_SignerHiding ==
    HonestlyConverted => \A j \in 0 .. Len(pks) - 1 : CouldBeFrom(j)

\* C18 (amended): signer hiding when the challenge x is not zero.  Every
\* signature convert produces for index pi with x # 0 is produced for every
\* other index pi' by exactly the scalars DrawsFor(pi'), from the honest Schnorr
\* signature of pi' with the same nonce, with the same vec_l and vec_r: the
\* signatures of pi and pi' with x # 0 are identically distributed.
C18_SignerHidingNonzeroX ==
    (HonestlyConverted /\ i_conv.trace.x # ZERO) =>
       \A j \in 0 .. Len(pks) - 1 : OtherSignatureHonest(j) /\ CouldBeFrom(j)

\* a signature with x # 0 of a ring of at least two, whose signer is not the
\* first of the ring
C18_Witness ==
    /\ HonestlyConverted
    /\ i_conv.trace.x # ZERO
    /\ i_index > 0
    /\ pks[1] # pks[i_index + 1]

---------------------------------------------------------------------------
(* The size of a proof (checked under SpecBullet) *)

\* prove returned a proof for vectors of a power-of-two length
ProvedPowerOfTwo ==
    /\ pc = "proved"
    /\ b_out.status = "ok"
    /\ IsPowerOfTwo(Len(b_in.vec_g))

\* C19: proof size.  Every BulletProof returned by prove on vectors of
\* power-of-two length n has |L| = |R| = log2(n) entries, one L and one R
\* appended per halving round.
C19_ProofSize ==
    ProvedPowerOfTwo =>
      /\ Pow2(Len(b_out.proof.vec_point_l)) = Len(b_in.vec_g)
      /\ Len(b_out.proof.vec_point_r) = Len(b_out.proof.vec_point_l)
      /\ Len(b_out.rounds) = Len(b_out.proof.vec_point_l)
      /\ \A k \in 1 .. Len(b_out.rounds) :
           Pow2(k) * b_out.rounds[k].n = Len(b_in.vec_g)

\* a proof for vectors of length 8: three rounds
C19_Witness ==
    /\ ProvedPowerOfTwo
    /\ Len(b_in.vec_g) = 8
    /\ Len(b_out.proof.vec_point_l) = 3

---------------------------------------------------------------------------
(* The folding invariant of prove (checked under SpecBullet) *)

\* prove ran on a target that is the commitment to its vectors, and went
\* through at least one round with an invertible challenge
ProvedRounds ==
    /\ pc = "proved"
    /\ b_in.target = Commit(Len(b_in.vec_g), b_in.vec_g, b_in.vec_l, b_in.vec_h, b_in.vec_r)
    /\ Len(b_out.rounds) >= 1

\* after round k the updated P is the commitment to the folded vectors
FoldedTargetHolds(k) ==
    LET round == b_out.rounds[k]
    IN  /\ Invertible(round.x)
        /\ Len(round.vec_g) = round.n
        /\ round.point_p = Commit(round.n, round.vec_g, round.vec_l, round.vec_h, round.vec_r)

---------------------------------------------------------------------------
(* Prover and verifier in lock-step (checked under SpecBullet) *)

\* verify ran on the proof prove returned, with the bases prove was given
HonestProofVerified ==
    /\ pc = "proof_verified"
    /\ b_ver.proof = b_out.proof
    /\ b_ver.vec_g = b_in.vec_g
    /\ b_ver.vec_h = b_in.vec_h

\* round i of the verifier is round i of the prover
SameRound(i) ==
    LET v == b_ver.rounds[i]
        p == b_out.rounds[i]
    IN  /\ v.x = p.x
        /\ v.x = BulletChallenge(digest, b_in.target,
                                 b_out.proof.vec_point_l[i], b_out.proof.vec_point_r[i])
        /\ v.point_p = p.point_p
        /\ v.vec_g = p.vec_g
        /\ v.vec_h = p.vec_h

\* C21: prover/verifier lock-step.  Run on a proof produced by prove and the
\* same bases, verify derives in round i the challenge x_i = H_bp(original
\* target, L_i, R_i) of the prover, and after each round its folded P, G and H
\* are the prover's of that round; when verify goes through its loop (it does
\* for a power-of-two n) it runs as many rounds as the prover.
C21_LockStep ==
    HonestProofVerified =>
      /\ Len(b_ver.rounds) <= Len(b_out.rounds)
      /\ \A i \in 1 .. Len(b_ver.rounds) : SameRound(i)
      /\ IsPowerOfTwo(Len(b_in.vec_g)) => Len(b_ver.rounds) = Len(b_out.rounds)

\* three rounds in lock-step, the point hashed not the point folded
C21_Witness ==
    /\ HonestProofVerified
    /\ Len(b_ver.rounds) = 3
    /\ b_ver.rounds[1].point_p # b_in.target
    /\ b_ver.rounds[2].point_p # b_in.target

---------------------------------------------------------------------------
(* Polynomial consistency in convert (checked under SpecHide) *)

\* convert went past its two ensure! and drew its scalars
ConvertComputed ==
    /\ pc = "converted"
    /\ i_index < Len(pks)
    /\ i_conv.status # "err"

\* sum_{j < n} y^j
RECURSIVE SumPowers(_, _)
SumPowers(y, n) ==
    IF n = 0 THEN ZERO ELSE SAdd(SumPowers(y, n - 1), IntPow(y, n - 1))

\* C22: polynomial consistency in convert.  For every ring size n, index
\* pi < n, blinders and challenges y, w, x, the value t_x = sum_i l_i * r_i
\* computed by convert equals t0 + t1 * x + t2 * x^2 with
\* t0 = w^2 - w^3 * n + (w - w^2) * sum_{j<n} y^j: the debug assertion of
\* convert holds, and t_x is the tx of the signature returned.
C22_PolynomialConsistency ==
    ConvertComputed =>
      LET tr == i_conv.trace
          n == Len(pks)
          tx == SumScalars([i \in 1 .. n |-> SMul(tr.vec_l[i], tr.vec_r[i])])
          w2 == SMul(tr.w, tr.w)
          t0 == SAdd(SSub(w2, SMul(SMul(w2, tr.w), n % Q)),
                     SMul(SSub(tr.w, w2), SumPowers(tr.y, n)))
      IN  /\ tr.t0 = t0
          /\ tx = SAdd(SAdd(t0, SMul(tr.t1, tr.x)), SMul(SMul(tr.t2, tr.x), tr.x))
          /\ i_conv.status = "ok" => i_sig.tx = tx

\* a ring of three, the second key's index, all of w, y, x, t1, t2 nonzero
C22_Witness ==
    /\ ConvertComputed
    /\ i_conv.status = "ok"
    /\ Len(pks) = 3
    /\ i_index = 1
    /\ i_conv.trace.w # ZERO /\ i_conv.trace.y # ZERO /\ i_conv.trace.x # ZERO
    /\ i_conv.trace.t1 # ZERO /\ i_conv.trace.t2 # ZERO

---------------------------------------------------------------------------
(* Transcript agreement of convert and verify (checked under SpecRing) *)

\* verify ran on the signature convert returned, with the ring and the message
\* of convert
SameInputsVerified ==
    /\ RingVerified
    /\ i_ver.ring = pks
    /\ i_ver.message = s_msg

\* C23: transcript agreement.  On an unmodified signature returned by convert,
\* with the same ring, message and parameters, verify recomputes the scalars
\* convert used: c = H_sig(R, m), the challenge of the Schnorr signature, c_z,
\* y, w, and x and d when it gets to them (it does when the signature was
\* converted with its signer's index), and the bases G'_i = G_i + pk_i * d and
\* H'_i = H_i * y^-i.
C23_TranscriptAgreement ==
    SameInputsVerified =>
      LET v == i_ver.trace
          cv == i_conv.trace
      IN  /\ v.c = SchnorrChallenge(digest, s_sig.point_r, s_msg)
          /\ v.c = cv.c /\ v.c_z = cv.c_z /\ v.y = cv.y /\ v.w = cv.w
          /\ v.reached >= 2 => v.x = cv.x
          /\ v.reached >= 3 =>
               /\ v.d = cv.d
               /\ v.base1 = i_conv.base1
               /\ v.base2 = i_conv.base2
               /\ \A i \in 1 .. Len(pks) :
                    /\ v.base1[i] = PAdd(params.vec_g[i], PMul(pks[i], v.d))
                    /\ PMul(v.base2[i], IntPow(v.y, i - 1)) = params.vec_h[i]
          /\ i_index = i_signer => v.reached >= 3

\* a ring of four, verify accepting after all its checks, d and y not trivial
C23_Witness ==
    /\ SameInputsVerified
    /\ Len(pks) = 4
    /\ i_ver.status = "ok"
    /\ i_ver.trace.reached = 4
    /\ i_ver.trace.d \notin {ZERO, ONE}
    /\ i_ver.trace.y # ONE

---------------------------------------------------------------------------
(* The ring of one key (checked under SpecRing) *)

\* the only member of a ring of one converted their own Schnorr signature
ConvertedRingOfOne ==
    /\ pc \in {"converted", "ring_verified"}
    /\ Len(pks) = 1
    /\ i_index = 0
    /\ i_signer = 0

\* BulletProof::verify accepts the proof with l and r in place of its scalars
\* exactly when target = G'_0 * l + H'_0 * r
AcceptsExactly(l, r) ==
    LET proof == [i_sig.bulletproof EXCEPT !.l = l, !.r = r]
    IN  (BulletVerify(digest, proof, i_conv.base1, i_conv.base2).status = "ok")
          <=> (proof.target = PAdd(PMul(i_conv.base1[1], l), PMul(i_conv.base2[1], r)))

\* what the ring of one has when convert returned a signature
RingOfOneProof ==
    /\ i_sig.bulletproof.vec_point_l = << >>
    /\ i_sig.bulletproof.vec_point_r = << >>
    /\ i_conv.rounds = << >>
    /\ i_sig.bulletproof.l = i_conv.trace.vec_l[1]
    /\ i_sig.bulletproof.r = i_conv.trace.vec_r[1]
    /\ \A l, r \in Scalars : AcceptsExactly(l, r)
    /\ (SameInputsVerified => i_ver.status = "ok")

\* C24 (as stated): degenerate ring n = 1.  convert with pi = 0 and verify both
\* succeed; the embedded BulletProof goes through zero halving rounds, so its
\* L and R are empty, its scalars are l = l_0 and r = r_0, and
\* BulletProof.verify accepts exactly when target = G'_0 * l + H'_0 * r.
C24_RingOfOne ==
    ConvertedRingOfOne => (i_conv.status = "ok" /\ RingOfOneProof)

\* C24 (amended): as stated when the challenge y is not zero; when y = 0
\* convert panics on the inverse of y and returns no signature.
C24_RingOfOneNonzeroY ==
    ConvertedRingOfOne =>
      /\ i_conv.trace.y # ZERO => (i_conv.status = "ok" /\ RingOfOneProof)
      /\ i_conv.trace.y = ZERO => (i_conv.status = "panic" /\ i_conv.why = "invert")

\* the ring of one converted and verified
C24_Witness ==
    /\ ConvertedRingOfOne
    /\ SameInputsVerified
    /\ i_ver.status = "ok"
    /\ i_ver.trace.reached = 4
    /\ i_ver.trace.rounds = << >>

---------------------------------------------------------------------------
(* Termination of the loops (checked under SpecLoop) *)

\* floor(log2 n) for n >= 1, and 0 for n = 0
RECURSIVE FloorLog2(_)
FloorLog2(n) == IF n <= 1 THEN 0 ELSE 1 + FloorLog2(n \div 2)

\* prove has left its loop
ProveLoopLeft == pc \in {"proved", "verifying", "proof_verified"}

\* verify entered its loop and has left it
VerifyLoopLeft == pc = "proof_verified" /\ b_ver.status \notin {"none"} /\
                  VerifyEnter(b_ver.build, b_ver.proof, b_ver.vec_g) = "ok"

\* no call is running, and none is left to make
LoopsEnded ==
    \/ pc = "proof_verified"
    \/ pc = "proved" /\ b_out.status # "ok"

\* the passes a loop has made never exceed those the claim counts
RoundsBounded ==
    /\ pc = "proving" => /\ Len(b_out.rounds) <= FloorLog2(Len(b_in.vec_g))
                         /\ b_out.n <= Len(b_in.vec_g)
    /\ ProveLoopLeft => Len(b_out.rounds) <= FloorLog2(Len(b_in.vec_g))
    /\ pc = "verifying" => /\ b_ver.st.status = "ok" =>
                                Len(b_ver.st.rounds) = b_ver.i - 1
                           /\ Len(b_ver.st.rounds) <= Len(b_ver.proof.vec_point_l)
    /\ pc = "proof_verified" => Len(b_ver.rounds) <= Len(b_ver.proof.vec_point_l)

\* a loop that no panic cut short made exactly the passes the claim counts,
\* and prove's n ended at 1
RoundsExactUnlessPanic ==
    /\ (ProveLoopLeft /\ b_out.status = "ok") =>
         /\ Len(b_out.rounds) = FloorLog2(Len(b_in.vec_g))
         /\ Len(b_out.proof.vec_point_l) = FloorLog2(Len(b_in.vec_g))
         /\ Len(b_out.rounds) > 0 => b_out.rounds[Len(b_out.rounds)].n = 1
    /\ (VerifyLoopLeft /\ b_ver.st.status = "ok") =>
         Len(b_ver.rounds) = Len(b_ver.proof.vec_point_l)

\* C25 (as stated): termination.  For vectors of length n >= 1 the halving
\* loop of prove stops after exactly floor(log2 n) rounds with n reduced to 1,
\* and the loop of verify stops after exactly |L| rounds.
C25_ExactRounds ==
    /\ (ProveLoopLeft /\ Len(b_in.vec_g) >= 1) =>
         Len(b_out.rounds) = FloorLog2(Len(b_in.vec_g))
    /\ VerifyLoopLeft => Len(b_ver.rounds) = Len(b_ver.proof.vec_point_l)

\* C25 (amended): termination.  Every call of prove and of verify ends; the
\* loop of prove makes at most floor(log2 n) passes and that of verify at
\* most |L|, and exactly that many, prove's n ending at 1, unless a pass
\* panics on the inverse of a zero challenge or on an index out of range.
C25_Termination ==
    /\ [](RoundsBounded /\ RoundsExactUnlessPanic)
    /\ <>LoopsEnded

\* prove halved four entries twice and verify replayed the two rounds
C25_Witness ==
    /\ pc = "proof_verified"
    /\ Len(b_in.vec_g) = MaxLoopLen
    /\ Len(b_out.rounds) = 2
    /\ b_ver.status = "ok"
    /\ Len(b_ver.rounds) = 2

---------------------------------------------------------------------------
(* Ring lengths (checked under SpecRing) *)

\* convert returned a signature for a ring of power-of-two length, and verify
\* was handed a ring of another length, of at most MAXN keys
OtherLengthVerified ==
    /\ RingVerified
    /\ IsPowerOfTwo(Len(pks))
    /\ Len(i_ver.ring) # Len(pks)
    /\ Len(i_ver.ring) <= MAXN

\* C26: ring-length binding.  A signature convert returned for a ring of
\* power-of-two length n is never accepted by verify on a ring of another
\* length n' <= MAXN: the embedded proof has log2(n) rounds, and where verify
\* comes to the proof it is rejected by n' = 2^|L|, before any round.
C26_RingLengthBinding ==
    OtherLengthVerified =>
      /\ i_ver.status # "ok"
      /\ Pow2(Len(i_sig.bulletproof.vec_point_l)) = Len(pks)
      /\ Len(i_ver.ring) # usize_pow2(Len(i_sig.bulletproof.vec_point_l))
      /\ i_ver.trace.reached >= 3 =>
           /\ i_ver.status = "err"
           /\ i_ver.trace.reached = 3
           /\ i_ver.trace.rounds = << >>

\* a signature for a ring of two keys passed Check 1 and Check 2 on a ring of
\* four and was rejected by the proof
C26_Witness ==
    /\ OtherLengthVerified
    /\ Len(pks) = 2
    /\ Len(i_ver.ring) = 4
    /\ i_ver.status = "err"
    /\ i_ver.trace.reached = 3

\* convert returned a signature for a ring whose length is no power of two,
\* and verify was handed the same ring and message
OddRingVerified ==
    /\ SameInputsVerified
    /\ ~IsPowerOfTwo(Len(pks))
    /\ Len(pks) <= MAXN

\* C27: non-power-of-two rings are never accepted.  For a ring of n <= MAXN
\* keys, n no power of two, every signature convert returns is rejected by
\* verify on the same ring and message: prove emitted floor(log2 n) rounds,
\* 2^floor(log2 n) # n, and where verify comes to the proof its ensure! on
\* the number of bases fails before any round.
C27_OddRingsRejected ==
    OddRingVerified =>
      /\ i_ver.status = "err"
      /\ Len(i_sig.bulletproof.vec_point_l) = FloorLog2(Len(pks))
      /\ Len(i_conv.rounds) = FloorLog2(Len(pks))
      /\ Pow2(FloorLog2(Len(pks))) # Len(pks)
      /\ i_ver.trace.reached <= 3
      /\ i_ver.trace.reached = 3 => i_ver.trace.rounds = << >>

\* a signature converted by its signer for a ring of three keys passed Check 1
\* and Check 2 and was rejected by the proof
C27_Witness ==
    /\ OddRingVerified
    /\ Len(pks) = 3
    /\ i_index = i_signer
    /\ i_ver.status = "err"
    /\ i_ver.trace.reached = 3

---------------------------------------------------------------------------
(* Response scalars (checked under SpecResponse) *)

\* what verify returns on the signature as convert returned it
VerifyUntampered == IncognitoVerify(digest, params, pks, s_msg, i_conv.sig)

\* verify accepts the signature convert returned, and was run on that
\* signature with field f, and nothing else, replaced by another scalar
ResponseReplaced(f) ==
    /\ pc = "response_verified"
    /\ i_tamper = f
    /\ i_sig[f] # i_conv.sig[f]
    /\ i_sig = [i_conv.sig EXCEPT ![f] = i_sig[f]]
    /\ VerifyUntampered.status = "ok"

\* C28: response scalars are non-malleable.  If verify accepts a signature,
\* the signature with only s_z replaced by another scalar is rejected by
\* Check 1, and the signature with only t_x replaced by another scalar is
\* rejected by Check 2: the challenges c, c_z, y, w, x entering the two checks
\* are those of the accepted signature.
C28_ResponsesNonMalleable ==
    /\ ResponseReplaced("s_z") =>
         /\ i_ver.status = "err"
         /\ i_ver.trace.reached = 1
         /\ \A ch \in {"c", "c_z", "y", "w"} :
              i_ver.trace[ch] = VerifyUntampered.trace[ch]
    /\ ResponseReplaced("tx") =>
         /\ i_ver.status = "err"
         /\ i_ver.trace.reached = 2
         /\ \A ch \in {"c", "c_z", "y", "w", "x"} :
              i_ver.trace[ch] = VerifyUntampered.trace[ch]

\* an accepted signature was rejected with another s_z
C28_Witness ==
    /\ ResponseReplaced("s_z")
    /\ Len(pks) = 2
    /\ i_ver.status = "err"

\* an accepted signature was rejected with another t_x
C28_WitnessTx ==
    /\ ResponseReplaced("tx")
    /\ Len(pks) = 2
    /\ i_ver.status = "err"

---------------------------------------------------------------------------
(* The opened inner product (checked under SpecForge) *)

\* C29: inner-product binding.  For a ring of one key, every signature that
\* verify accepts satisfies t_x = bulletproof.l * bulletproof.r.
C29_InnerProductBinding ==
    (/\ pc = "forge_verified"
     /\ Len(pks) = 1
     /\ i_ver.status = "ok")
      => i_sig.tx = SMul(i_sig.bulletproof.l, i_sig.bulletproof.r)

\* verify accepted, on a ring of one key, a signature whose t_x is not the
\* product of the scalars its proof opens
C29_Accepted ==
    /\ pc = "forge_verified"
    /\ Len(pks) = 1
    /\ i_ver.status = "ok"
    /\ i_ver.trace.reached = 4
    /\ i_sig.tx # SMul(i_sig.bulletproof.l, i_sig.bulletproof.r)

---------------------------------------------------------------------------
(* What the challenges hash (checked under SpecRing) *)

\* the challenges two runs of verify both derived are the same: c_z, y, w of
\* every run, x of a run past Check 1, d of a run past Check 2
SameChallenges(tr1, tr2) ==
    /\ tr1.c_z = tr2.c_z
    /\ tr1.y = tr2.y
    /\ tr1.w = tr2.w
    /\ (tr1.reached >= 2 /\ tr2.reached >= 2) => tr1.x = tr2.x
    /\ (tr1.reached >= 3 /\ tr2.reached >= 3) => tr1.d = tr2.d

\* verify on the ring of convert, with the message m
VerifyOnConvertRing(m) == IncognitoVerify(digest, params, pks, m, i_sig)

\* C30: challenge inputs.  In verify and in convert the challenges c_z, y, w,
\* x and d are functions of the signature's fields and of g: a run of verify
\* on any ring and any message derives the c_z, y, w, x and d that convert
\* derived and that a run on another ring and another message derives; c is
\* the hash of R and the message verify was given.
C30_ChallengeInputs ==
    RingVerified =>
      /\ i_ver.trace.c = SchnorrChallenge(digest, i_sig.point_r, i_ver.message)
      /\ i_ver.trace.c_z = i_conv.trace.c_z
      /\ i_ver.trace.y = i_conv.trace.y
      /\ i_ver.trace.w = i_conv.trace.w
      /\ i_ver.trace.reached >= 2 => i_ver.trace.x = i_conv.trace.x
      /\ i_ver.trace.reached >= 3 => i_ver.trace.d = i_conv.trace.d
      /\ \A m \in IncognitoMessages :
           SameChallenges(i_ver.trace, VerifyOnConvertRing(m).trace)

\* two runs on rings of different lengths and on different messages, one of
\* them accepting, derived the same c_z, y, w, x and d and different c
C30_Witness ==
    /\ RingVerified
    /\ Len(i_ver.ring) # Len(pks)
    /\ i_ver.message # s_msg
    /\ i_ver.trace.reached >= 3
    /\ VerifyOnConvertRing(s_msg).status = "ok"
    /\ i_ver.trace.c # VerifyOnConvertRing(s_msg).trace.c
    /\ i_ver.trace.d = VerifyOnConvertRing(s_msg).trace.d

=============================================================================
